---- MODULE Spec2Model ----
(***************************************************************************)
(* A model of the Miniflux Python client (miniflux.py).                    *)
(*                                                                         *)
(* The client is a thin wrapper: the constructor validates and stores the  *)
(* configuration and writes the credentials into a requests session; each  *)
(* API method builds one URL, optionally a JSON body or a params mapping,  *)
(* hands them to the session, and maps the response status to a return     *)
(* value or to an exception.                                               *)
(*                                                                         *)
(* Python values are tagged records, strings are TLA+ strings, a Python    *)
(* dict is a function from its keys to values.  The transport (requests)   *)
(* is the environment: it answers every call with a response drawn from    *)
(* Responses, or raises.                                                   *)
(***************************************************************************)
EXTENDS Integers, Sequences, FiniteSets, TLC

VARIABLES
    pc,         \* position of the calling program: "new", "ready", "failed", "done"
    _base_url,  \* Client._base_url
    _timeout,   \* Client._timeout
    _session,   \* Client._session: [headers, auth]
    call,       \* the last operation invoked: [name, args]
    request,    \* the request that operation handed to the transport
    response,   \* what the transport answered, with the reads made of its body
    outcome,    \* how the operation ended: a returned value or a raised exception
    reasons,    \* the results of the get_error_reason() calls made on the raised error
    session_calls, \* the method calls made on the client's session, in order
    scope,      \* the with-block the client is used in: [state, target, escaping]
    sessions,   \* the session objects of a program with several clients, by identity
    clients     \* the clients such a program has constructed, in order

vars == <<pc, _base_url, _timeout, _session, call, request, response, outcome, reasons,
          session_calls, scope, sessions, clients>>

-----------------------------------------------------------------------------
(* Bounds of the model *)

MaxId == 2          \* identifiers (feed_id, entry_id, ...) range over 1..MaxId
MaxTrailing == 2    \* a base_url ends in 0..MaxTrailing '/' characters
MaxReasonCalls == 2 \* get_error_reason() is called at most this often on one error
MaxCalls == 2       \* the caller goes on after a call while the session has seen fewer calls
MaxClients == 2     \* a program constructs at most this many clients
MaxShared == 1      \* and makes at most this many sessions of its own

-----------------------------------------------------------------------------
(* Python values *)

None == [t |-> "none"]
PyBool(b) == [t |-> "bool", b |-> b]
PyInt(i) == [t |-> "int", i |-> i]
PyStr(s) == [t |-> "str", s |-> s]
PyList(l) == [t |-> "list", l |-> l]
PyDict(d) == [t |-> "dict", d |-> d]
PyTuple(e) == [t |-> "tuple", e |-> e]

True == PyBool(TRUE)
False == PyBool(FALSE)
EmptyDict == PyDict(<<>>)

\* Python truth value testing, as used by `if v`, `not v`, `a and b`, `a or b`.
Truthy(v) ==
    CASE v.t = "none" -> FALSE
      [] v.t = "bool" -> v.b
      [] v.t = "int" -> v.i # 0
      [] v.t = "str" -> v.s # ""
      [] v.t = "list" -> v.l # <<>>
      [] v.t = "dict" -> DOMAIN v.d # {}
      [] v.t = "tuple" -> v.e # <<>>
      [] OTHER -> TRUE

\* str.startswith with a tuple of prefixes
startswith(s, prefixes) ==
    \E p \in prefixes : Len(s) >= Len(p) /\ SubSeq(s, 1, Len(p)) = p

\* a variant of rstrip that removes at most one trailing character
rstrip_one(s, c) ==
    IF Len(s) > 0 /\ SubSeq(s, Len(s), Len(s)) = c
    THEN SubSeq(s, 1, Len(s) - 1)
    ELSE s

\* str.rstrip(chars) for a single character
RECURSIVE rstrip(_, _)
rstrip(s, c) ==
    IF Len(s) > 0 /\ SubSeq(s, Len(s), Len(s)) = c
    THEN rstrip(SubSeq(s, 1, Len(s) - 1), c)
    ELSE s

\* the text an f-string interpolates for a value
str(v) ==
    CASE v.t = "int" -> ToString(v.i)
      [] v.t = "str" -> v.s
      [] v.t = "none" -> "None"
      [] OTHER -> "?"

\* json.dumps: the JSON value a Python value serializes to
RECURSIVE json_dumps(_)
json_dumps(v) ==
    CASE v.t = "none" -> [j |-> "null"]
      [] v.t = "bool" -> [j |-> IF v.b THEN "true" ELSE "false"]
      [] v.t = "int" -> [j |-> "number", n |-> v.i]
      [] v.t = "str" -> [j |-> "string", s |-> v.s]
      [] v.t = "list" -> [j |-> "array", a |-> [i \in DOMAIN v.l |-> json_dumps(v.l[i])]]
      [] v.t = "dict" -> [j |-> "object", o |-> [k \in DOMAIN v.d |-> json_dumps(v.d[k])]]

\* json.loads / Response.json(): the Python value a JSON value decodes to
RECURSIVE json_loads(_)
json_loads(x) ==
    CASE x.j = "null" -> None
      [] x.j = "true" -> True
      [] x.j = "false" -> False
      [] x.j = "number" -> PyInt(x.n)
      [] x.j = "string" -> PyStr(x.s)
      [] x.j = "array" -> PyList([i \in DOMAIN x.a |-> json_loads(x.a[i])])
      [] x.j = "object" -> PyDict([k \in DOMAIN x.o |-> json_loads(x.o[k])])

\* dict.update(other)
update(d, other) ==
    PyDict([k \in DOMAIN d.d \cup DOMAIN other.d |->
                IF k \in DOMAIN other.d THEN other.d[k] ELSE d.d[k]])

-----------------------------------------------------------------------------
(* Program constants *)

API_VERSION == 1
DefaultTimeout == 30
DEFAULT_USER_AGENT == "Miniflux Python Client Library"

-----------------------------------------------------------------------------
(* The requests library: sessions, requests and responses *)

\* requests.Session(): a new session carries the library's own User-Agent and
\* no credentials
FreshSession ==
    [headers |-> [h \in {"User-Agent"} |-> PyStr("python-requests")], auth |-> None]

\* a session the caller configured before handing it to the constructor
UsedSession ==
    [headers |-> [h \in {"User-Agent", "X-Auth-Token"} |->
                    IF h = "User-Agent" THEN PyStr("caller-agent") ELSE PyStr("old-token")],
     auth |-> PyTuple(<<PyStr("a"), PyStr("b")>>)]

\* Session.headers.update({name: value})
headers_update(session, name, value) ==
    [session EXCEPT !.headers =
        [h \in DOMAIN session.headers \cup {name} |->
            IF h = name THEN value ELSE session.headers[h]]]

\* Session.headers.get(name)
headers_get(session, name) ==
    IF name \in DOMAIN session.headers THEN session.headers[name] ELSE None

Omitted == [t |-> "omitted"]        \* a keyword argument that is not passed
NoRequest == [sent |-> FALSE]
NoResponse == [kind |-> "none"]
NoOutcome == [kind |-> "none"]

\* the client is not used in a with-block
NoScope == [state |-> "outside", target |-> None, escaping |-> None]

\* what the session records of a call of one of its methods: the method and
\* the timeout keyword it was given
SessionCall(req) == [method |-> req.verb, timeout |-> <<req.timeout>>]

\* session.close()
CloseCall == [method |-> "close", timeout |-> <<>>]

\* session.get / post / put / delete(url, data=..., params=..., timeout=...)
Request(verb, url, data, params, timeout) ==
    [sent |-> TRUE, verb |-> verb, url |-> url, data |-> data, params |-> params,
     timeout |-> timeout]

Statuses == {200, 201, 202, 204, 302, 400, 401, 403, 404, 405, 409, 429, 500, 503}

JsonNumber(n) == [j |-> "number", n |-> n]
JsonString(s) == [j |-> "string", s |-> s]
JsonObject(o) == [j |-> "object", o |-> o]
JsonArray(a) == [j |-> "array", a |-> a]
NotJson == [j |-> "invalid"]        \* a body that is not a JSON document
EmptyBody == [j |-> "empty"]        \* no body at all
JsonNull == [j |-> "null"]

ObjectBody == JsonObject([feed_id |-> JsonNumber(42), has_integrations |-> [j |-> "true"]])
ArrayBody == JsonArray(<<JsonObject([id |-> JsonNumber(7)])>>)
ErrorBody == JsonObject([error_message |-> JsonString("some error")])

BodiesOf(s) ==
    IF s \in {200, 201} THEN {ObjectBody, ArrayBody, NotJson, EmptyBody}
    ELSE IF s < 400 THEN {EmptyBody}
    ELSE {ErrorBody}

JsonContentType == [h \in {"Content-Type"} |-> PyStr("application/json")]

Responses ==
    UNION {{[kind |-> "response", status_code |-> s, headers |-> JsonContentType,
             body |-> b, reads |-> <<>>] : b \in BodiesOf(s)} : s \in Statuses}

\* the transport raising instead of answering (timeout, connection error)
TransportFailure == [kind |-> "raised", exc |-> "Timeout"]

TransportReplies == Responses \cup {TransportFailure}

Return(v) == [kind |-> "return", value |-> v]
Raise(exc) == [kind |-> "raise", exc |-> exc]

\* a result obtained by reading the body of the response through `how`
\* ("json" for Response.json(), "text" for Response.text)
Reading(how, result) ==
    [k \in DOMAIN result \cup {"read"} |-> IF k = "read" THEN how ELSE result[k]]

\* the read a result was obtained by, if any
ReadsOf(result) == IF "read" \in DOMAIN result THEN <<result.read>> ELSE <<>>

\* the result as the caller sees it
Outcome(result) ==
    IF "read" \in DOMAIN result THEN [k \in DOMAIN result \ {"read"} |-> result[k]]
    ELSE result

\* Response.json()
json(resp) ==
    Reading("json", IF resp.body.j \in {"invalid", "empty"} THEN Raise("JSONDecodeError")
                    ELSE Return(json_loads(resp.body)))

\* Response.text
text(resp) == [t |-> "text", of |-> resp.body]

\* value[key] on the decoded body
getitem(decoded, key) ==
    IF decoded.kind = "raise" THEN decoded
    ELSE IF decoded.value.t # "dict" THEN Reading(decoded.read, Raise("TypeError"))
    ELSE IF key \notin DOMAIN decoded.value.d THEN Reading(decoded.read, Raise("KeyError"))
    ELSE Reading(decoded.read, Return(decoded.value.d[key]))

-----------------------------------------------------------------------------
(* ClientError and its subtypes *)

\* a variant whose constructor decodes the body at once
ClientError_eager(type, resp) ==
    [kind |-> "raise", exc |-> type, status_code |-> resp.status_code,
     _response |-> [resp EXCEPT !.reads = @ \o <<"json">>]]

ClientError(type, resp) ==
    [kind |-> "raise", exc |-> type, status_code |-> resp.status_code, _response |-> resp]

ErrorTypes ==
    {"ClientError", "ResourceNotFound", "AccessForbidden", "AccessUnauthorized",
     "BadRequest", "ServerError"}

-----------------------------------------------------------------------------
(* Client.__init__ *)

RECURSIVE Slashes(_)
Slashes(k) == IF k = 0 THEN "" ELSE "/" \o Slashes(k - 1)

BaseUrlStems ==
    {"http://localhost", "https://localhost", "http:", "ftp://localhost", "localhost",
     "xhttp://localhost"}
BaseUrls == {stem \o Slashes(k) : stem \in BaseUrlStems, k \in 0..MaxTrailing}
Usernames == {None, PyStr(""), PyStr("u")}
Passwords == {None, PyStr(""), PyStr("p")}
ApiKeys == {None, PyStr(""), PyStr("k")}
Timeouts == {DefaultTimeout, 5}
UserAgents == {DEFAULT_USER_AGENT}
SessionArgs == {None, [t |-> "session", state |-> UsedSession]}

InvalidBaseUrl(base_url) == ~startswith(base_url, {"http://", "https://"})

\* a variant that accepts a username or a password alone
MissingCredentials_either(api_key, username, password) ==
    ~Truthy(api_key) /\ ~(Truthy(username) \/ Truthy(password))

MissingCredentials(api_key, username, password) ==
    ~Truthy(api_key) /\ ~(Truthy(username) /\ Truthy(password))

\* self._session = session or requests.Session()
SessionOrNew(session) == IF Truthy(session) THEN session.state ELSE FreshSession

\* a variant that sets the basic-auth credentials whether or not an api_key is given
ConfigureSession_both(session, user_agent, api_key, username, password) ==
    LET s == headers_update(session, "User-Agent", PyStr(user_agent))
        k == IF Truthy(api_key) THEN headers_update(s, "X-Auth-Token", api_key) ELSE s
    IN  IF Truthy(username) /\ Truthy(password)
        THEN [k EXCEPT !.auth = PyTuple(<<username, password>>)]
        ELSE k

\* a variant that clears the basic-auth credentials when an api_key is given
ConfigureSession_clearing(session, user_agent, api_key, username, password) ==
    LET s == headers_update(session, "User-Agent", PyStr(user_agent))
    IN  IF Truthy(api_key) THEN [headers_update(s, "X-Auth-Token", api_key) EXCEPT !.auth = None]
        ELSE IF Truthy(username) /\ Truthy(password)
             THEN [s EXCEPT !.auth = PyTuple(<<username, password>>)]
             ELSE s

ConfigureSession(session, user_agent, api_key, username, password) ==
    LET s == headers_update(session, "User-Agent", PyStr(user_agent))
    IN  IF Truthy(api_key) THEN headers_update(s, "X-Auth-Token", api_key)
        ELSE IF Truthy(username) /\ Truthy(password)
             THEN [s EXCEPT !.auth = PyTuple(<<username, password>>)]
             ELSE s

Construct ==
    /\ pc = "new"
    /\ \E base_url \in BaseUrls, username \in Usernames, password \in Passwords,
          timeout \in Timeouts, api_key \in ApiKeys, user_agent \in UserAgents,
          session \in SessionArgs :
        /\ call' = [name |-> "__init__",
                    args |-> [base_url |-> PyStr(base_url), username |-> username,
                              password |-> password, timeout |-> PyInt(timeout),
                              api_key |-> api_key, user_agent |-> PyStr(user_agent),
                              session |-> session]]
        /\ request' = NoRequest
        /\ response' = NoResponse
        /\ UNCHANGED <<reasons, session_calls, scope, sessions, clients>>
        /\ IF InvalidBaseUrl(base_url) \/ MissingCredentials(api_key, username, password)
           THEN /\ outcome' = Raise("ValueError")
                /\ pc' = "failed"
                /\ UNCHANGED <<_base_url, _timeout, _session>>
           ELSE /\ _base_url' = rstrip(base_url, "/")
                /\ _timeout' = timeout
                /\ _session' = ConfigureSession(SessionOrNew(session), user_agent,
                                                api_key, username, password)
                /\ outcome' = Return(None)
                /\ pc' = "ready"

-----------------------------------------------------------------------------
(* Helpers of the API methods *)

\* a variant that leaves the API version out of the URL
_get_endpoint_unversioned(path) == _base_url \o path

_get_endpoint(path) == _base_url \o "/v" \o ToString(API_VERSION) \o path

\* a variant that filters like _get_modification_params
_get_params_not_none(kwargs) ==
    LET params == PyDict([k \in {k \in DOMAIN kwargs.d : kwargs.d[k] # None} |-> kwargs.d[k]])
    IN  IF Cardinality(DOMAIN params.d) > 0 THEN params ELSE None

_get_params(kwargs) ==
    LET params == PyDict([k \in {k \in DOMAIN kwargs.d : Truthy(kwargs.d[k])} |-> kwargs.d[k]])
    IN  IF Cardinality(DOMAIN params.d) > 0 THEN params ELSE None

\* a variant that filters like _get_params
_get_modification_params_truthy(kwargs) ==
    PyDict([k \in {k \in DOMAIN kwargs.d : Truthy(kwargs.d[k])} |-> kwargs.d[k]])

_get_modification_params(kwargs) ==
    PyDict([k \in {k \in DOMAIN kwargs.d : kwargs.d[k] # None} |-> kwargs.d[k]])

\* a variant with the 401 and 403 branches exchanged
_handle_error_response_swapped(resp) ==
    IF resp.status_code = 404 THEN ClientError("ResourceNotFound", resp)
    ELSE IF resp.status_code = 401 THEN ClientError("AccessForbidden", resp)
    ELSE IF resp.status_code = 403 THEN ClientError("AccessUnauthorized", resp)
    ELSE IF resp.status_code = 400 THEN ClientError("BadRequest", resp)
    ELSE IF resp.status_code >= 500 THEN ClientError("ServerError", resp)
    ELSE ClientError("ClientError", resp)

\* a variant that takes every status above 404 for a server error
_handle_error_response_above404(resp) ==
    IF resp.status_code = 404 THEN ClientError("ResourceNotFound", resp)
    ELSE IF resp.status_code = 403 THEN ClientError("AccessForbidden", resp)
    ELSE IF resp.status_code = 401 THEN ClientError("AccessUnauthorized", resp)
    ELSE IF resp.status_code = 400 THEN ClientError("BadRequest", resp)
    ELSE IF resp.status_code > 404 THEN ClientError("ServerError", resp)
    ELSE ClientError("ClientError", resp)

_handle_error_response(resp) ==
    IF resp.status_code = 404 THEN ClientError("ResourceNotFound", resp)
    ELSE IF resp.status_code = 403 THEN ClientError("AccessForbidden", resp)
    ELSE IF resp.status_code = 401 THEN ClientError("AccessUnauthorized", resp)
    ELSE IF resp.status_code = 400 THEN ClientError("BadRequest", resp)
    ELSE IF resp.status_code >= 500 THEN ClientError("ServerError", resp)
    ELSE ClientError("ClientError", resp)

\* a variant that sends the request a second time when the transport raised
\* or the server failed
Invoke_retrying(name, args, req, reply, result) ==
    /\ pc' = "done"
    /\ call' = [name |-> name, args |-> args]
    /\ request' = req
    /\ response' = IF reply.kind = "raised" THEN reply
                   ELSE [reply EXCEPT !.reads = @ \o ReadsOf(result)]
    /\ outcome' = IF reply.kind = "raised" THEN Raise(reply.exc) ELSE Outcome(result)
    /\ session_calls' =
            IF reply.kind = "raised" \/ reply.status_code >= 500
            THEN session_calls \o <<SessionCall(req), SessionCall(req)>>
            ELSE Append(session_calls, SessionCall(req))
    /\ UNCHANGED <<_base_url, _timeout, _session, reasons, scope, sessions, clients>>

\* a variant that catches the exception of the transport and raises ClientError
Invoke_translating(name, args, req, reply, result) ==
    /\ pc' = "done"
    /\ call' = [name |-> name, args |-> args]
    /\ request' = req
    /\ response' = IF reply.kind = "raised" THEN reply
                   ELSE [reply EXCEPT !.reads = @ \o ReadsOf(result)]
    /\ outcome' = IF reply.kind = "raised" THEN Raise("ClientError") ELSE Outcome(result)
    /\ session_calls' = Append(session_calls, SessionCall(req))
    /\ UNCHANGED <<_base_url, _timeout, _session, reasons, scope, sessions, clients>>

\* a variant that drops the credentials of the session when the server
\* answers 401
Invoke_forgetting(name, args, req, reply, result) ==
    /\ pc' = "done"
    /\ call' = [name |-> name, args |-> args]
    /\ request' = req
    /\ response' = IF reply.kind = "raised" THEN reply
                   ELSE [reply EXCEPT !.reads = @ \o ReadsOf(result)]
    /\ outcome' = IF reply.kind = "raised" THEN Raise(reply.exc) ELSE Outcome(result)
    /\ session_calls' = Append(session_calls, SessionCall(req))
    /\ _session' = IF reply.kind = "response" /\ reply.status_code = 401
                   THEN [_session EXCEPT !.auth = None]
                   ELSE _session
    /\ UNCHANGED <<_base_url, _timeout, reasons, scope, sessions, clients>>

\* One API method run to completion: the request is handed to the transport,
\* which answers with `reply` or raises; `result` is what the method makes of
\* an answer.  An exception of the transport is not caught by any method.
Invoke(name, args, req, reply, result) ==
    /\ pc' = "done"
    /\ call' = [name |-> name, args |-> args]
    /\ request' = req
    /\ response' = IF reply.kind = "raised" THEN reply
                   ELSE [reply EXCEPT !.reads = @ \o ReadsOf(result)]
    /\ outcome' = IF reply.kind = "raised" THEN Raise(reply.exc) ELSE Outcome(result)
    /\ session_calls' = Append(session_calls, SessionCall(req))
    /\ UNCHANGED <<_base_url, _timeout, _session, reasons, scope, sessions, clients>>

\* the client exists: an API method can be called on it
Ready == pc = "ready"

Ids == 1..MaxId

\* keyword arguments: every subset of the keys K, each key with one of its values
KwargsOver(K, values) ==
    UNION {{PyDict(f) : f \in {g \in [S -> UNION {values[k] : k \in K}] :
                                    \A k \in S : g[k] \in values[k]}} : S \in SUBSET K}

\* the values the keyword arguments of the model range over, by key
FieldValues ==
    [title |-> {None, PyStr(""), PyStr("t")},
     crawler |-> {None, False, True},
     username |-> {PyStr("u")},
     password |-> {PyStr("p")},
     entries_per_page |-> {None, PyInt(0), PyInt(25)},
     is_admin |-> {None, False, True},
     starred |-> {None, False, True},
     limit |-> {PyInt(0), PyInt(10)},
     status |-> {PyList(<<>>), PyList(<<PyStr("read")>>)},
     search |-> {PyStr(""), PyStr("q")}]

-----------------------------------------------------------------------------
(* The API methods, in the order of the source *)

flush_history ==
    /\ Ready
    /\ \E reply \in TransportReplies :
           LET endpoint == _get_endpoint("/flush-history")
               req == Request("DELETE", endpoint, Omitted, Omitted, _timeout)
           IN  Invoke("flush_history", <<>>, req, reply,
                      IF reply.status_code = 202 THEN Return(True)
                      ELSE _handle_error_response(reply))

\* a variant that requests the unversioned /version
get_version_unversioned ==
    /\ Ready
    /\ \E reply \in TransportReplies :
           LET endpoint == _base_url \o "/version"
               req == Request("GET", endpoint, Omitted, Omitted, _timeout)
           IN  Invoke("get_version", <<>>, req, reply,
                      IF reply.status_code = 200 THEN json(reply)
                      ELSE _handle_error_response(reply))

get_version ==
    /\ Ready
    /\ \E reply \in TransportReplies :
           LET endpoint == _get_endpoint("/version")
               req == Request("GET", endpoint, Omitted, Omitted, _timeout)
           IN  Invoke("get_version", <<>>, req, reply,
                      IF reply.status_code = 200 THEN json(reply)
                      ELSE _handle_error_response(reply))

me ==
    /\ Ready
    /\ \E reply \in TransportReplies :
           LET endpoint == _get_endpoint("/me")
               req == Request("GET", endpoint, Omitted, Omitted, _timeout)
           IN  Invoke("me", <<>>, req, reply,
                      IF reply.status_code = 200 THEN json(reply)
                      ELSE _handle_error_response(reply))

_export_feeds(caller) ==
    /\ Ready
    /\ \E reply \in TransportReplies :
           LET endpoint == _get_endpoint("/export")
               req == Request("GET", endpoint, Omitted, Omitted, _timeout)
           IN  Invoke(caller, <<>>, req, reply,
                      IF reply.status_code = 200 THEN Reading("text", Return(text(reply)))
                      ELSE _handle_error_response(reply))

export == _export_feeds("export")

export_feeds == _export_feeds("export_feeds")

import_feeds ==
    /\ Ready
    /\ \E opml \in {"<opml/>"}, reply \in TransportReplies :
           LET endpoint == _get_endpoint("/import")
               req == Request("POST", endpoint, PyStr(opml), Omitted, _timeout)
           IN  Invoke("import_feeds", [opml |-> PyStr(opml)], req, reply,
                      IF reply.status_code = 201 THEN json(reply)
                      ELSE _handle_error_response(reply))

\* a variant that projects a field out of the body as create_feed does
discover_projected ==
    /\ Ready
    /\ \E website_url \in {"http://example.org/"},
          kwargs \in KwargsOver({"username", "password"}, FieldValues),
          reply \in TransportReplies :
           LET endpoint == _get_endpoint("/discover")
               data == update(PyDict([url |-> PyStr(website_url)]), kwargs)
               req == Request("POST", endpoint, json_dumps(data), Omitted, _timeout)
           IN  Invoke("discover",
                      [website_url |-> PyStr(website_url), kwargs |-> kwargs], req, reply,
                      IF reply.status_code = 200 THEN getitem(json(reply), "feed_id")
                      ELSE _handle_error_response(reply))

\* a variant that sends the website URL alone
discover_url_only ==
    /\ Ready
    /\ \E website_url \in {"http://example.org/"},
          kwargs \in KwargsOver({"username", "password"}, FieldValues),
          reply \in TransportReplies :
           LET endpoint == _get_endpoint("/discover")
               data == PyDict([url |-> PyStr(website_url)])
               req == Request("POST", endpoint, json_dumps(data), Omitted, _timeout)
           IN  Invoke("discover",
                      [website_url |-> PyStr(website_url), kwargs |-> kwargs], req, reply,
                      IF reply.status_code = 200 THEN json(reply)
                      ELSE _handle_error_response(reply))

discover ==
    /\ Ready
    /\ \E website_url \in {"http://example.org/"},
          kwargs \in KwargsOver({"username", "password"}, FieldValues),
          reply \in TransportReplies :
           LET endpoint == _get_endpoint("/discover")
               data == update(PyDict([url |-> PyStr(website_url)]), kwargs)
               req == Request("POST", endpoint, json_dumps(data), Omitted, _timeout)
           IN  Invoke("discover",
                      [website_url |-> PyStr(website_url), kwargs |-> kwargs], req, reply,
                      IF reply.status_code = 200 THEN json(reply)
                      ELSE _handle_error_response(reply))

get_category_feeds ==
    /\ Ready
    /\ \E category_id \in Ids, reply \in TransportReplies :
           LET endpoint == _get_endpoint("/categories/" \o str(PyInt(category_id)) \o "/feeds")
               req == Request("GET", endpoint, Omitted, Omitted, _timeout)
           IN  Invoke("get_category_feeds", [category_id |-> PyInt(category_id)], req, reply,
                      IF reply.status_code = 200 THEN json(reply)
                      ELSE _handle_error_response(reply))

get_feeds ==
    /\ Ready
    /\ \E reply \in TransportReplies :
           LET endpoint == _get_endpoint("/feeds")
               req == Request("GET", endpoint, Omitted, Omitted, _timeout)
           IN  Invoke("get_feeds", <<>>, req, reply,
                      IF reply.status_code = 200 THEN json(reply)
                      ELSE _handle_error_response(reply))

get_feed ==
    /\ Ready
    /\ \E feed_id \in Ids, reply \in TransportReplies :
           LET endpoint == _get_endpoint("/feeds/" \o str(PyInt(feed_id)))
               req == Request("GET", endpoint, Omitted, Omitted, _timeout)
           IN  Invoke("get_feed", [feed_id |-> PyInt(feed_id)], req, reply,
                      IF reply.status_code = 200 THEN json(reply)
                      ELSE _handle_error_response(reply))

_get_feed_icon(caller) ==
    /\ Ready
    /\ \E feed_id \in Ids, reply \in TransportReplies :
           LET endpoint == _get_endpoint("/feeds/" \o str(PyInt(feed_id)) \o "/icon")
               req == Request("GET", endpoint, Omitted, Omitted, _timeout)
           IN  Invoke(caller, [feed_id |-> PyInt(feed_id)], req, reply,
                      IF reply.status_code = 200 THEN json(reply)
                      ELSE _handle_error_response(reply))

get_feed_icon == _get_feed_icon("get_feed_icon")

get_icon ==
    /\ Ready
    /\ \E icon_id \in Ids, reply \in TransportReplies :
           LET endpoint == _get_endpoint("/icons/" \o str(PyInt(icon_id)))
               req == Request("GET", endpoint, Omitted, Omitted, _timeout)
           IN  Invoke("get_icon", [icon_id |-> PyInt(icon_id)], req, reply,
                      IF reply.status_code = 200 THEN json(reply)
                      ELSE _handle_error_response(reply))

get_icon_by_feed_id == _get_feed_icon("get_icon_by_feed_id")

\* a variant that returns the whole decoded body
create_feed_whole_body ==
    /\ Ready
    /\ \E feed_url \in {"http://example.org/feed"},
          category_id \in {None} \cup {PyInt(i) : i \in Ids},
          kwargs \in KwargsOver({"crawler", "username"}, FieldValues),
          reply \in TransportReplies :
           LET endpoint == _get_endpoint("/feeds")
               data == update(PyDict([feed_url |-> PyStr(feed_url),
                                      category_id |-> category_id]), kwargs)
               req == Request("POST", endpoint, json_dumps(data), Omitted, _timeout)
           IN  Invoke("create_feed",
                      [feed_url |-> PyStr(feed_url), category_id |-> category_id,
                       kwargs |-> kwargs], req, reply,
                      IF reply.status_code = 201 THEN json(reply)
                      ELSE _handle_error_response(reply))

\* a variant that drops the None fields like the update-style calls
create_feed_filtered ==
    /\ Ready
    /\ \E feed_url \in {"http://example.org/feed"},
          category_id \in {None} \cup {PyInt(i) : i \in Ids},
          kwargs \in KwargsOver({"crawler", "username"}, FieldValues),
          reply \in TransportReplies :
           LET endpoint == _get_endpoint("/feeds")
               data == _get_modification_params(
                           update(PyDict([feed_url |-> PyStr(feed_url),
                                          category_id |-> category_id]), kwargs))
               req == Request("POST", endpoint, json_dumps(data), Omitted, _timeout)
           IN  Invoke("create_feed",
                      [feed_url |-> PyStr(feed_url), category_id |-> category_id,
                       kwargs |-> kwargs], req, reply,
                      IF reply.status_code = 201 THEN getitem(json(reply), "feed_id")
                      ELSE _handle_error_response(reply))

create_feed ==
    /\ Ready
    /\ \E feed_url \in {"http://example.org/feed"},
          category_id \in {None} \cup {PyInt(i) : i \in Ids},
          kwargs \in KwargsOver({"crawler", "username"}, FieldValues),
          reply \in TransportReplies :
           LET endpoint == _get_endpoint("/feeds")
               data == update(PyDict([feed_url |-> PyStr(feed_url),
                                      category_id |-> category_id]), kwargs)
               req == Request("POST", endpoint, json_dumps(data), Omitted, _timeout)
           IN  Invoke("create_feed",
                      [feed_url |-> PyStr(feed_url), category_id |-> category_id,
                       kwargs |-> kwargs], req, reply,
                      IF reply.status_code = 201 THEN getitem(json(reply), "feed_id")
                      ELSE _handle_error_response(reply))

\* a variant that accepts every 2xx status
update_feed_any_2xx ==
    /\ Ready
    /\ \E feed_id \in Ids,
          kwargs \in KwargsOver({"title", "crawler"}, FieldValues),
          reply \in TransportReplies :
           LET endpoint == _get_endpoint("/feeds/" \o str(PyInt(feed_id)))
               data == _get_modification_params(kwargs)
               req == Request("PUT", endpoint, json_dumps(data), Omitted, _timeout)
           IN  Invoke("update_feed", [feed_id |-> PyInt(feed_id), kwargs |-> kwargs], req, reply,
                      IF reply.status_code \in 200..299 THEN json(reply)
                      ELSE _handle_error_response(reply))

update_feed ==
    /\ Ready
    /\ \E feed_id \in Ids,
          kwargs \in KwargsOver({"title", "crawler"}, FieldValues),
          reply \in TransportReplies :
           LET endpoint == _get_endpoint("/feeds/" \o str(PyInt(feed_id)))
               data == _get_modification_params(kwargs)
               req == Request("PUT", endpoint, json_dumps(data), Omitted, _timeout)
           IN  Invoke("update_feed", [feed_id |-> PyInt(feed_id), kwargs |-> kwargs], req, reply,
                      IF reply.status_code = 201 THEN json(reply)
                      ELSE _handle_error_response(reply))

refresh_all_feeds ==
    /\ Ready
    /\ \E reply \in TransportReplies :
           LET endpoint == _get_endpoint("/feeds/refresh")
               req == Request("PUT", endpoint, Omitted, Omitted, _timeout)
           IN  Invoke("refresh_all_feeds", <<>>, req, reply,
                      IF reply.status_code >= 400 THEN _handle_error_response(reply)
                      ELSE Return(True))

\* a variant that accepts the status 204 only
refresh_feed_strict ==
    /\ Ready
    /\ \E feed_id \in Ids, reply \in TransportReplies :
           LET endpoint == _get_endpoint("/feeds/" \o str(PyInt(feed_id)) \o "/refresh")
               req == Request("PUT", endpoint, Omitted, Omitted, _timeout)
           IN  Invoke("refresh_feed", [feed_id |-> PyInt(feed_id)], req, reply,
                      IF reply.status_code # 204 THEN _handle_error_response(reply)
                      ELSE Return(True))

refresh_feed ==
    /\ Ready
    /\ \E feed_id \in Ids, reply \in TransportReplies :
           LET endpoint == _get_endpoint("/feeds/" \o str(PyInt(feed_id)) \o "/refresh")
               req == Request("PUT", endpoint, Omitted, Omitted, _timeout)
           IN  Invoke("refresh_feed", [feed_id |-> PyInt(feed_id)], req, reply,
                      IF reply.status_code >= 400 THEN _handle_error_response(reply)
                      ELSE Return(True))

refresh_category ==
    /\ Ready
    /\ \E category_id \in Ids, reply \in TransportReplies :
           LET endpoint == _get_endpoint("/categories/" \o str(PyInt(category_id)) \o "/refresh")
               req == Request("PUT", endpoint, Omitted, Omitted, _timeout)
           IN  Invoke("refresh_category", [category_id |-> PyInt(category_id)], req, reply,
                      IF reply.status_code >= 400 THEN _handle_error_response(reply)
                      ELSE Return(True))

delete_feed ==
    /\ Ready
    /\ \E feed_id \in Ids, reply \in TransportReplies :
           LET endpoint == _get_endpoint("/feeds/" \o str(PyInt(feed_id)))
               req == Request("DELETE", endpoint, Omitted, Omitted, _timeout)
           IN  Invoke("delete_feed", [feed_id |-> PyInt(feed_id)], req, reply,
                      IF reply.status_code # 204 THEN _handle_error_response(reply)
                      ELSE Return(None))

get_feed_entry ==
    /\ Ready
    /\ \E feed_id \in Ids, entry_id \in Ids, reply \in TransportReplies :
           LET endpoint == _get_endpoint(
                   "/feeds/" \o str(PyInt(feed_id)) \o "/entries/" \o str(PyInt(entry_id)))
               req == Request("GET", endpoint, Omitted, Omitted, _timeout)
           IN  Invoke("get_feed_entry",
                      [feed_id |-> PyInt(feed_id), entry_id |-> PyInt(entry_id)], req, reply,
                      IF reply.status_code = 200 THEN json(reply)
                      ELSE _handle_error_response(reply))

get_feed_entries ==
    /\ Ready
    /\ \E feed_id \in Ids,
          kwargs \in KwargsOver({"status", "search"}, FieldValues),
          reply \in TransportReplies :
           LET endpoint == _get_endpoint("/feeds/" \o str(PyInt(feed_id)) \o "/entries")
               params == _get_params(kwargs)
               req == Request("GET", endpoint, Omitted, params, _timeout)
           IN  Invoke("get_feed_entries", [feed_id |-> PyInt(feed_id), kwargs |-> kwargs], req, reply,
                      IF reply.status_code = 200 THEN json(reply)
                      ELSE _handle_error_response(reply))

\* a variant that sends the request without testing url
import_entry_unchecked ==
    /\ Ready
    /\ \E feed_id \in Ids, url \in {None, PyStr(""), PyStr("http://example.org/a")},
          title \in {None, PyStr("")}, published_at \in {None, PyInt(0)},
          starred \in {None, False}, tags \in {None, PyList(<<>>)},
          reply \in TransportReplies :
           LET args == [feed_id |-> PyInt(feed_id), url |-> url, title |-> title,
                        author |-> None, content |-> None, published_at |-> published_at,
                        status |-> None, starred |-> starred, tags |-> tags,
                        external_id |-> None, comments_url |-> None]
               endpoint == _get_endpoint("/feeds/" \o str(PyInt(feed_id)) \o "/entries/import")
               data == _get_modification_params(
                           PyDict([k \in DOMAIN args \ {"feed_id"} |-> args[k]]))
               req == Request("POST", endpoint, json_dumps(data), Omitted, _timeout)
           IN  IF FALSE
               THEN /\ pc' = "done"
                    /\ call' = [name |-> "import_entry", args |-> args]
                    /\ request' = NoRequest
                    /\ response' = NoResponse
                    /\ outcome' = Raise("ValueError")
                    /\ UNCHANGED <<_base_url, _timeout, _session, reasons,
                                   session_calls, scope, sessions, clients>>
               ELSE Invoke("import_entry", args, req, reply,
                           IF reply.status_code \in {200, 201} THEN json(reply)
                           ELSE _handle_error_response(reply))

import_entry ==
    /\ Ready
    /\ \E feed_id \in Ids, url \in {None, PyStr(""), PyStr("http://example.org/a")},
          title \in {None, PyStr("")}, published_at \in {None, PyInt(0)},
          starred \in {None, False}, tags \in {None, PyList(<<>>)},
          reply \in TransportReplies :
           LET args == [feed_id |-> PyInt(feed_id), url |-> url, title |-> title,
                        author |-> None, content |-> None, published_at |-> published_at,
                        status |-> None, starred |-> starred, tags |-> tags,
                        external_id |-> None, comments_url |-> None]
               endpoint == _get_endpoint("/feeds/" \o str(PyInt(feed_id)) \o "/entries/import")
               data == _get_modification_params(
                           PyDict([k \in DOMAIN args \ {"feed_id"} |-> args[k]]))
               req == Request("POST", endpoint, json_dumps(data), Omitted, _timeout)
           IN  IF ~Truthy(url)
               THEN /\ pc' = "done"
                    /\ call' = [name |-> "import_entry", args |-> args]
                    /\ request' = NoRequest
                    /\ response' = NoResponse
                    /\ outcome' = Raise("ValueError")
                    /\ UNCHANGED <<_base_url, _timeout, _session, reasons,
                                   session_calls, scope, sessions, clients>>
               ELSE Invoke("import_entry", args, req, reply,
                           IF reply.status_code \in {200, 201} THEN json(reply)
                           ELSE _handle_error_response(reply))

\* a variant that decodes the body of a 204 response
mark_feed_entries_as_read_decoding ==
    /\ Ready
    /\ \E feed_id \in Ids, reply \in TransportReplies :
           LET endpoint == _get_endpoint("/feeds/" \o str(PyInt(feed_id)) \o "/mark-all-as-read")
               req == Request("PUT", endpoint, Omitted, Omitted, _timeout)
           IN  Invoke("mark_feed_entries_as_read", [feed_id |-> PyInt(feed_id)], req, reply,
                      IF reply.status_code # 204 THEN _handle_error_response(reply)
                      ELSE json(reply))

mark_feed_entries_as_read ==
    /\ Ready
    /\ \E feed_id \in Ids, reply \in TransportReplies :
           LET endpoint == _get_endpoint("/feeds/" \o str(PyInt(feed_id)) \o "/mark-all-as-read")
               req == Request("PUT", endpoint, Omitted, Omitted, _timeout)
           IN  Invoke("mark_feed_entries_as_read", [feed_id |-> PyInt(feed_id)], req, reply,
                      IF reply.status_code # 204 THEN _handle_error_response(reply)
                      ELSE Return(None))

get_entry ==
    /\ Ready
    /\ \E entry_id \in Ids, reply \in TransportReplies :
           LET endpoint == _get_endpoint("/entries/" \o str(PyInt(entry_id)))
               req == Request("GET", endpoint, Omitted, Omitted, _timeout)
           IN  Invoke("get_entry", [entry_id |-> PyInt(entry_id)], req, reply,
                      IF reply.status_code = 200 THEN json(reply)
                      ELSE _handle_error_response(reply))

get_entries ==
    /\ Ready
    /\ \E kwargs \in KwargsOver({"starred", "limit"}, FieldValues), reply \in TransportReplies :
           LET endpoint == _get_endpoint("/entries")
               params == _get_params(kwargs)
               req == Request("GET", endpoint, Omitted, params, _timeout)
           IN  Invoke("get_entries", [kwargs |-> kwargs], req, reply,
                      IF reply.status_code = 200 THEN json(reply)
                      ELSE _handle_error_response(reply))

update_entry ==
    /\ Ready
    /\ \E entry_id \in Ids,
          title \in {None, PyStr(""), PyStr("t")},
          content \in {None, PyStr(""), PyStr("c")},
          reply \in TransportReplies :
           LET endpoint == _get_endpoint("/entries/" \o str(PyInt(entry_id)))
               data == _get_modification_params(PyDict([title |-> title, content |-> content]))
               req == Request("PUT", endpoint, json_dumps(data), Omitted, _timeout)
           IN  Invoke("update_entry",
                      [entry_id |-> PyInt(entry_id), title |-> title, content |-> content], req, reply,
                      IF reply.status_code = 201 THEN json(reply)
                      ELSE _handle_error_response(reply))

\* a variant that accepts the status 204 only
update_entries_strict ==
    /\ Ready
    /\ \E entry_ids \in {PyList(<<>>), PyList(<<PyInt(1)>>), PyList(<<PyInt(1), PyInt(2)>>)},
          status \in {"read", "unread"},
          reply \in TransportReplies :
           LET endpoint == _get_endpoint("/entries")
               data == PyDict([entry_ids |-> entry_ids, status |-> PyStr(status)])
               req == Request("PUT", endpoint, json_dumps(data), Omitted, _timeout)
           IN  Invoke("update_entries",
                      [entry_ids |-> entry_ids, status |-> PyStr(status)], req, reply,
                      IF reply.status_code # 204 THEN _handle_error_response(reply)
                      ELSE Return(True))

update_entries ==
    /\ Ready
    /\ \E entry_ids \in {PyList(<<>>), PyList(<<PyInt(1)>>), PyList(<<PyInt(1), PyInt(2)>>)},
          status \in {"read", "unread"},
          reply \in TransportReplies :
           LET endpoint == _get_endpoint("/entries")
               data == PyDict([entry_ids |-> entry_ids, status |-> PyStr(status)])
               req == Request("PUT", endpoint, json_dumps(data), Omitted, _timeout)
           IN  Invoke("update_entries",
                      [entry_ids |-> entry_ids, status |-> PyStr(status)], req, reply,
                      IF reply.status_code >= 400 THEN _handle_error_response(reply)
                      ELSE Return(True))

fetch_entry_content ==
    /\ Ready
    /\ \E entry_id \in Ids, reply \in TransportReplies :
           LET endpoint == _get_endpoint("/entries/" \o str(PyInt(entry_id)) \o "/fetch-content")
               req == Request("GET", endpoint, Omitted, Omitted, _timeout)
           IN  Invoke("fetch_entry_content", [entry_id |-> PyInt(entry_id)], req, reply,
                      IF reply.status_code = 200 THEN json(reply)
                      ELSE _handle_error_response(reply))

toggle_bookmark ==
    /\ Ready
    /\ \E entry_id \in Ids, reply \in TransportReplies :
           LET endpoint == _get_endpoint("/entries/" \o str(PyInt(entry_id)) \o "/bookmark")
               req == Request("PUT", endpoint, Omitted, Omitted, _timeout)
           IN  Invoke("toggle_bookmark", [entry_id |-> PyInt(entry_id)], req, reply,
                      IF reply.status_code >= 400 THEN _handle_error_response(reply)
                      ELSE Return(True))

save_entry ==
    /\ Ready
    /\ \E entry_id \in Ids, reply \in TransportReplies :
           LET endpoint == _get_endpoint("/entries/" \o str(PyInt(entry_id)) \o "/save")
               req == Request("POST", endpoint, Omitted, Omitted, _timeout)
           IN  Invoke("save_entry", [entry_id |-> PyInt(entry_id)], req, reply,
                      IF reply.status_code # 202 THEN _handle_error_response(reply)
                      ELSE Return(True))

get_enclosure ==
    /\ Ready
    /\ \E enclosure_id \in Ids, reply \in TransportReplies :
           LET endpoint == _get_endpoint("/enclosures/" \o str(PyInt(enclosure_id)))
               req == Request("GET", endpoint, Omitted, Omitted, _timeout)
           IN  Invoke("get_enclosure", [enclosure_id |-> PyInt(enclosure_id)], req, reply,
                      IF reply.status_code = 200 THEN json(reply)
                      ELSE _handle_error_response(reply))

\* a variant that returns nothing on 204, like the delete methods
update_enclosure_none ==
    /\ Ready
    /\ \E enclosure_id \in Ids,
          media_progression \in {None, PyInt(0), PyInt(7)},
          reply \in TransportReplies :
           LET endpoint == _get_endpoint("/enclosures/" \o str(PyInt(enclosure_id)))
               data == _get_modification_params(PyDict([media_progression |-> media_progression]))
               req == Request("PUT", endpoint, json_dumps(data), Omitted, _timeout)
           IN  Invoke("update_enclosure",
                      [enclosure_id |-> PyInt(enclosure_id),
                       media_progression |-> media_progression], req, reply,
                      IF reply.status_code # 204 THEN _handle_error_response(reply)
                      ELSE Return(None))

update_enclosure ==
    /\ Ready
    /\ \E enclosure_id \in Ids,
          media_progression \in {None, PyInt(0), PyInt(7)},
          reply \in TransportReplies :
           LET endpoint == _get_endpoint("/enclosures/" \o str(PyInt(enclosure_id)))
               data == _get_modification_params(PyDict([media_progression |-> media_progression]))
               req == Request("PUT", endpoint, json_dumps(data), Omitted, _timeout)
           IN  Invoke("update_enclosure",
                      [enclosure_id |-> PyInt(enclosure_id),
                       media_progression |-> media_progression], req, reply,
                      IF reply.status_code # 204 THEN _handle_error_response(reply)
                      ELSE Return(True))

get_categories ==
    /\ Ready
    /\ \E reply \in TransportReplies :
           LET endpoint == _get_endpoint("/categories")
               req == Request("GET", endpoint, Omitted, Omitted, _timeout)
           IN  Invoke("get_categories", <<>>, req, reply,
                      IF reply.status_code = 200 THEN json(reply)
                      ELSE _handle_error_response(reply))

get_category_entry ==
    /\ Ready
    /\ \E category_id \in Ids, entry_id \in Ids, reply \in TransportReplies :
           LET endpoint == _get_endpoint(
                   "/categories/" \o str(PyInt(category_id)) \o "/entries/" \o str(PyInt(entry_id)))
               req == Request("GET", endpoint, Omitted, Omitted, _timeout)
           IN  Invoke("get_category_entry",
                      [category_id |-> PyInt(category_id), entry_id |-> PyInt(entry_id)], req, reply,
                      IF reply.status_code = 200 THEN json(reply)
                      ELSE _handle_error_response(reply))

get_category_entries ==
    /\ Ready
    /\ \E category_id \in Ids,
          kwargs \in KwargsOver({"starred", "status"}, FieldValues),
          reply \in TransportReplies :
           LET endpoint == _get_endpoint("/categories/" \o str(PyInt(category_id)) \o "/entries")
               params == _get_params(kwargs)
               req == Request("GET", endpoint, Omitted, params, _timeout)
           IN  Invoke("get_category_entries",
                      [category_id |-> PyInt(category_id), kwargs |-> kwargs], req, reply,
                      IF reply.status_code = 200 THEN json(reply)
                      ELSE _handle_error_response(reply))

create_category ==
    /\ Ready
    /\ \E title \in {"", "News"}, reply \in TransportReplies :
           LET endpoint == _get_endpoint("/categories")
               data == PyDict([title |-> PyStr(title)])
               req == Request("POST", endpoint, json_dumps(data), Omitted, _timeout)
           IN  Invoke("create_category", [title |-> PyStr(title)], req, reply,
                      IF reply.status_code = 201 THEN json(reply)
                      ELSE _handle_error_response(reply))

update_category ==
    /\ Ready
    /\ \E category_id \in Ids, title \in {"", "News"}, reply \in TransportReplies :
           LET endpoint == _get_endpoint("/categories/" \o str(PyInt(category_id)))
               data == PyDict([id |-> PyInt(category_id), title |-> PyStr(title)])
               req == Request("PUT", endpoint, json_dumps(data), Omitted, _timeout)
           IN  Invoke("update_category",
                      [category_id |-> PyInt(category_id), title |-> PyStr(title)], req, reply,
                      IF reply.status_code = 201 THEN json(reply)
                      ELSE _handle_error_response(reply))

delete_category ==
    /\ Ready
    /\ \E category_id \in Ids, reply \in TransportReplies :
           LET endpoint == _get_endpoint("/categories/" \o str(PyInt(category_id)))
               req == Request("DELETE", endpoint, Omitted, Omitted, _timeout)
           IN  Invoke("delete_category", [category_id |-> PyInt(category_id)], req, reply,
                      IF reply.status_code # 204 THEN _handle_error_response(reply)
                      ELSE Return(None))

mark_category_entries_as_read ==
    /\ Ready
    /\ \E category_id \in Ids, reply \in TransportReplies :
           LET endpoint == _get_endpoint(
                   "/categories/" \o str(PyInt(category_id)) \o "/mark-all-as-read")
               req == Request("PUT", endpoint, Omitted, Omitted, _timeout)
           IN  Invoke("mark_category_entries_as_read",
                      [category_id |-> PyInt(category_id)], req, reply,
                      IF reply.status_code # 204 THEN _handle_error_response(reply)
                      ELSE Return(None))

get_users ==
    /\ Ready
    /\ \E reply \in TransportReplies :
           LET endpoint == _get_endpoint("/users")
               req == Request("GET", endpoint, Omitted, Omitted, _timeout)
           IN  Invoke("get_users", <<>>, req, reply,
                      IF reply.status_code = 200 THEN json(reply)
                      ELSE _handle_error_response(reply))

_get_user(caller, args, user_id_or_username) ==
    /\ Ready
    /\ \E reply \in TransportReplies :
           LET endpoint == _get_endpoint("/users/" \o str(user_id_or_username))
               req == Request("GET", endpoint, Omitted, Omitted, _timeout)
           IN  Invoke(caller, args, req, reply,
                      IF reply.status_code = 200 THEN json(reply)
                      ELSE _handle_error_response(reply))

get_user_by_id ==
    /\ Ready
    /\ \E user_id \in Ids :
           _get_user("get_user_by_id", [user_id |-> PyInt(user_id)], PyInt(user_id))

get_user_by_username ==
    /\ Ready
    /\ \E username \in {"bob"} :
           _get_user("get_user_by_username", [username |-> PyStr(username)], PyStr(username))

create_user ==
    /\ Ready
    /\ \E username \in {"bob"},
          password \in {"", "secret"},
          is_admin \in {False, True},
          reply \in TransportReplies :
           LET endpoint == _get_endpoint("/users")
               data == PyDict([username |-> PyStr(username), password |-> PyStr(password),
                                        is_admin |-> is_admin])
               req == Request("POST", endpoint, json_dumps(data), Omitted, _timeout)
           IN  Invoke("create_user",
                      [username |-> PyStr(username), password |-> PyStr(password),
                       is_admin |-> is_admin], req, reply,
                      IF reply.status_code = 201 THEN json(reply)
                      ELSE _handle_error_response(reply))

update_user ==
    /\ Ready
    /\ \E user_id \in Ids,
          kwargs \in KwargsOver({"entries_per_page", "is_admin"}, FieldValues),
          reply \in TransportReplies :
           LET endpoint == _get_endpoint("/users/" \o str(PyInt(user_id)))
               data == _get_modification_params(kwargs)
               req == Request("PUT", endpoint, json_dumps(data), Omitted, _timeout)
           IN  Invoke("update_user", [user_id |-> PyInt(user_id), kwargs |-> kwargs], req, reply,
                      IF reply.status_code = 201 THEN json(reply)
                      ELSE _handle_error_response(reply))

delete_user ==
    /\ Ready
    /\ \E user_id \in Ids, reply \in TransportReplies :
           LET endpoint == _get_endpoint("/users/" \o str(PyInt(user_id)))
               req == Request("DELETE", endpoint, Omitted, Omitted, _timeout)
           IN  Invoke("delete_user", [user_id |-> PyInt(user_id)], req, reply,
                      IF reply.status_code # 204 THEN _handle_error_response(reply)
                      ELSE Return(None))

mark_user_entries_as_read ==
    /\ Ready
    /\ \E user_id \in Ids, reply \in TransportReplies :
           LET endpoint == _get_endpoint("/users/" \o str(PyInt(user_id)) \o "/mark-all-as-read")
               req == Request("PUT", endpoint, Omitted, Omitted, _timeout)
           IN  Invoke("mark_user_entries_as_read", [user_id |-> PyInt(user_id)], req, reply,
                      IF reply.status_code # 204 THEN _handle_error_response(reply)
                      ELSE Return(None))

get_feed_counters ==
    /\ Ready
    /\ \E reply \in TransportReplies :
           LET endpoint == _get_endpoint("/feeds/counters")
               req == Request("GET", endpoint, Omitted, Omitted, _timeout)
           IN  Invoke("get_feed_counters", <<>>, req, reply,
                      IF reply.status_code = 200 THEN json(reply)
                      ELSE _handle_error_response(reply))

get_integrations_status ==
    /\ Ready
    /\ \E reply \in TransportReplies :
           LET endpoint == _get_endpoint("/integrations/status")
               req == Request("GET", endpoint, Omitted, Omitted, _timeout)
           IN  Invoke("get_integrations_status", <<>>, req, reply,
                      IF reply.status_code = 200 THEN getitem(json(reply), "has_integrations")
                      ELSE _handle_error_response(reply))

get_api_keys ==
    /\ Ready
    /\ \E reply \in TransportReplies :
           LET endpoint == _get_endpoint("/api-keys")
               req == Request("GET", endpoint, Omitted, Omitted, _timeout)
           IN  Invoke("get_api_keys", <<>>, req, reply,
                      IF reply.status_code = 200 THEN json(reply)
                      ELSE _handle_error_response(reply))

create_api_key ==
    /\ Ready
    /\ \E description \in {"", "cli"}, reply \in TransportReplies :
           LET endpoint == _get_endpoint("/api-keys")
               data == PyDict([description |-> PyStr(description)])
               req == Request("POST", endpoint, json_dumps(data), Omitted, _timeout)
           IN  Invoke("create_api_key", [description |-> PyStr(description)], req, reply,
                      IF reply.status_code = 201 THEN json(reply)
                      ELSE _handle_error_response(reply))

delete_api_key ==
    /\ Ready
    /\ \E api_key_id \in Ids, reply \in TransportReplies :
           LET endpoint == _get_endpoint("/api-keys/" \o str(PyInt(api_key_id)))
               req == Request("DELETE", endpoint, Omitted, Omitted, _timeout)
           IN  Invoke("delete_api_key", [api_key_id |-> PyInt(api_key_id)], req, reply,
                      IF reply.status_code # 204 THEN _handle_error_response(reply)
                      ELSE Return(None))

-----------------------------------------------------------------------------

Init ==
    /\ pc = "new"
    /\ _base_url = ""
    /\ _timeout = 0
    /\ _session = [headers |-> <<>>, auth |-> None]
    /\ call = [name |-> "", args |-> <<>>]
    /\ request = NoRequest
    /\ response = NoResponse
    /\ outcome = NoOutcome
    /\ reasons = <<>>
    /\ session_calls = <<>>
    /\ scope = NoScope
    /\ sessions = <<>>
    /\ clients = <<>>

ApiMethods ==
    {"flush_history", "get_version", "me", "export",
     "export_feeds", "import_feeds", "discover", "get_category_feeds",
     "get_feeds", "get_feed", "get_feed_icon", "get_icon",
     "get_icon_by_feed_id", "create_feed", "update_feed", "refresh_all_feeds",
     "refresh_feed", "refresh_category", "delete_feed", "get_feed_entry",
     "get_feed_entries", "import_entry", "mark_feed_entries_as_read", "get_entry",
     "get_entries", "update_entry", "update_entries", "fetch_entry_content",
     "toggle_bookmark", "save_entry", "get_enclosure", "update_enclosure",
     "get_categories", "get_category_entry", "get_category_entries", "create_category",
     "update_category", "delete_category", "mark_category_entries_as_read", "get_users",
     "get_user_by_id", "get_user_by_username", "create_user", "update_user",
     "delete_user", "mark_user_entries_as_read", "get_feed_counters", "get_integrations_status",
     "get_api_keys", "create_api_key", "delete_api_key"}

Next ==
    \/ Construct
    \/ flush_history
    \/ get_version
    \/ me
    \/ export
    \/ export_feeds
    \/ import_feeds
    \/ discover
    \/ get_category_feeds
    \/ get_feeds
    \/ get_feed
    \/ get_feed_icon
    \/ get_icon
    \/ get_icon_by_feed_id
    \/ create_feed
    \/ update_feed
    \/ refresh_all_feeds
    \/ refresh_feed
    \/ refresh_category
    \/ delete_feed
    \/ get_feed_entry
    \/ get_feed_entries
    \/ import_entry
    \/ mark_feed_entries_as_read
    \/ get_entry
    \/ get_entries
    \/ update_entry
    \/ update_entries
    \/ fetch_entry_content
    \/ toggle_bookmark
    \/ save_entry
    \/ get_enclosure
    \/ update_enclosure
    \/ get_categories
    \/ get_category_entry
    \/ get_category_entries
    \/ create_category
    \/ update_category
    \/ delete_category
    \/ mark_category_entries_as_read
    \/ get_users
    \/ get_user_by_id
    \/ get_user_by_username
    \/ create_user
    \/ update_user
    \/ delete_user
    \/ mark_user_entries_as_read
    \/ get_feed_counters
    \/ get_integrations_status
    \/ get_api_keys
    \/ create_api_key
    \/ delete_api_key

Spec == Init /\ [][Next]_vars

-----------------------------------------------------------------------------
(* ClientError.get_error_reason, on errors built from a response as      *)
(* _handle_error_response builds them                                      *)

ErrorStatuses == {400, 401, 403, 404, 409, 500}

ContentTypes == {"application/json", "application/json; charset=utf-8", "text/html"}

\* Response.headers: without a Content-Type, or with one of ContentTypes
ErrorHeaders == {<<>>} \cup {[h \in {"Content-Type"} |-> PyStr(c)] : c \in ContentTypes}

ErrorBodies == {ErrorBody, JsonObject(<<>>), ArrayBody, JsonNull, NotJson, EmptyBody}

ErrorResponses ==
    {[kind |-> "response", status_code |-> s, headers |-> h, body |-> b, reads |-> <<>>] :
        s \in ErrorStatuses, h \in ErrorHeaders, b \in ErrorBodies}

\* dict.get(key, default)
dict_get(d, key, default) == IF key \in DOMAIN d.d THEN d.d[key] ELSE default

\* a method has received `response` and hands it to _handle_error_response
handle_error_response ==
    /\ pc = "responded"
    /\ pc' = "raised"
    /\ outcome' = _handle_error_response(response)
    /\ UNCHANGED <<_base_url, _timeout, _session, call, request, response, reasons,
                   session_calls, scope, sessions, clients>>

\* a variant that takes every Content-Type beginning with application/json for JSON
get_error_reason_prefix ==
    /\ pc = "raised"
    /\ Len(reasons) < MaxReasonCalls
    /\ LET self == outcome
           default_reason == PyStr("status_code=" \o ToString(self.status_code))
           result == json(self._response)
           returned ==
               IF LET content_type == headers_get(self._response, "Content-Type")
                  IN  content_type.t = "str"
                      /\ startswith(content_type.s, {"application/json"})
               THEN IF result.kind = "raise"
                    THEN result
                    ELSE IF result.value.t = "dict"
                         THEN Reading("json", Return(dict_get(result.value, "error_message",
                                                              default_reason)))
                         ELSE Reading("json", Return(default_reason))
               ELSE Return(default_reason)
       IN  /\ reasons' = Append(reasons, Outcome(returned))
           /\ outcome' = [outcome EXCEPT !._response.reads = @ \o ReadsOf(returned)]
           /\ response' = [response EXCEPT !.reads = @ \o ReadsOf(returned)]
           /\ call' = [name |-> "get_error_reason", args |-> <<>>]
    /\ UNCHANGED <<pc, _base_url, _timeout, _session, request,
                   session_calls, scope, sessions, clients>>


\* the caller holds the raised error and asks for its reason; the error and
\* the caller refer to the same response object
get_error_reason ==
    /\ pc = "raised"
    /\ Len(reasons) < MaxReasonCalls
    /\ LET self == outcome
           default_reason == PyStr("status_code=" \o ToString(self.status_code))
           result == json(self._response)
           returned ==
               IF headers_get(self._response, "Content-Type") = PyStr("application/json")
               THEN IF result.kind = "raise"
                    THEN result
                    ELSE IF result.value.t = "dict"
                         THEN Reading("json", Return(dict_get(result.value, "error_message",
                                                              default_reason)))
                         ELSE Reading("json", Return(default_reason))
               ELSE Return(default_reason)
       IN  /\ reasons' = Append(reasons, Outcome(returned))
           /\ outcome' = [outcome EXCEPT !._response.reads = @ \o ReadsOf(returned)]
           /\ response' = [response EXCEPT !.reads = @ \o ReadsOf(returned)]
           /\ call' = [name |-> "get_error_reason", args |-> <<>>]
    /\ UNCHANGED <<pc, _base_url, _timeout, _session, request,
                   session_calls, scope, sessions, clients>>

InitError ==
    /\ pc = "responded"
    /\ _base_url = ""
    /\ _timeout = 0
    /\ _session = [headers |-> <<>>, auth |-> None]
    /\ call = [name |-> "", args |-> <<>>]
    /\ request = NoRequest
    /\ response \in ErrorResponses
    /\ outcome = NoOutcome
    /\ reasons = <<>>
    /\ session_calls = <<>>
    /\ scope = NoScope
    /\ sessions = <<>>
    /\ clients = <<>>

NextError ==
    \/ handle_error_response
    \/ get_error_reason

SpecError == InitError /\ [][NextError]_vars

-----------------------------------------------------------------------------
(* The life of one client: calls in sequence, close() and the with-block *)

\* the client object, as the caller and the with-statement hold it
Self == [t |-> "client", _base_url |-> _base_url, _timeout |-> _timeout]

\* the caller has taken the value returned, or caught the exception raised,
\* and goes on to its next statement
proceed ==
    /\ pc = "done"
    /\ scope.escaping = None
    /\ Len(session_calls) < MaxCalls
    /\ pc' = "ready"
    /\ call' = [name |-> "", args |-> <<>>]
    /\ request' = NoRequest
    /\ response' = NoResponse
    /\ outcome' = NoOutcome
    /\ UNCHANGED <<_base_url, _timeout, _session, reasons, session_calls, scope,
                   sessions, clients>>

\* a variant that remembers that the client was closed and closes the session
\* only once
close_once ==
    /\ Ready
    /\ pc' = "done"
    /\ call' = [name |-> "close", args |-> <<>>]
    /\ request' = NoRequest
    /\ response' = NoResponse
    /\ outcome' = Return(None)
    /\ session_calls' = IF \E i \in DOMAIN session_calls : session_calls[i] = CloseCall
                        THEN session_calls
                        ELSE Append(session_calls, CloseCall)
    /\ UNCHANGED <<_base_url, _timeout, _session, reasons, scope, sessions, clients>>

close ==
    /\ Ready
    /\ pc' = "done"
    /\ call' = [name |-> "close", args |-> <<>>]
    /\ request' = NoRequest
    /\ response' = NoResponse
    /\ outcome' = Return(None)
    /\ session_calls' = Append(session_calls, CloseCall)
    /\ UNCHANGED <<_base_url, _timeout, _session, reasons, scope, sessions, clients>>

\* with Client(...) as target: the with-statement calls __enter__ and binds
\* what it returns
__enter__ ==
    /\ Ready
    /\ scope.state = "outside"
    /\ pc' = "done"
    /\ call' = [name |-> "__enter__", args |-> <<>>]
    /\ request' = NoRequest
    /\ response' = NoResponse
    /\ outcome' = Return(Self)
    /\ scope' = [state |-> "inside", target |-> Self, escaping |-> None]
    /\ UNCHANGED <<_base_url, _timeout, _session, reasons, session_calls, sessions, clients>>

\* the exception that is leaving the block, if the last statement raised
Leaving == IF pc = "done" /\ outcome.kind = "raise" THEN PyStr(outcome.exc) ELSE None

\* a variant whose __exit__ returns True
__exit___suppressing ==
    /\ scope.state = "inside"
    /\ pc \in {"ready", "done"}
    /\ LET returned == True
       IN  /\ pc' = "done"
           /\ call' = [name |-> "__exit__", args |-> <<Leaving>>]
           /\ request' = NoRequest
           /\ response' = NoResponse
           /\ outcome' = Return(returned)
           /\ session_calls' = Append(session_calls, CloseCall)
           /\ scope' = [scope EXCEPT !.state = "left",
                                     !.escaping = IF Truthy(returned) THEN None ELSE Leaving]
    /\ UNCHANGED <<_base_url, _timeout, _session, reasons, sessions, clients>>

\* the block is left, at its end or by an exception: the with-statement calls
\* __exit__, which calls close() and returns None; the with-statement
\* suppresses the exception only if __exit__ returns a true value
__exit__ ==
    /\ scope.state = "inside"
    /\ pc \in {"ready", "done"}
    /\ LET returned == None
       IN  /\ pc' = "done"
           /\ call' = [name |-> "__exit__", args |-> <<Leaving>>]
           /\ request' = NoRequest
           /\ response' = NoResponse
           /\ outcome' = Return(returned)
           /\ session_calls' = Append(session_calls, CloseCall)
           /\ scope' = [scope EXCEPT !.state = "left",
                                     !.escaping = IF Truthy(returned) THEN None ELSE Leaving]
    /\ UNCHANGED <<_base_url, _timeout, _session, reasons, sessions, clients>>

\* a client after its construction, over a session of its own or over the
\* caller's, with an api key or with a username and a password
InitLife ==
    /\ pc = "ready"
    /\ \E session \in SessionArgs, timeout \in Timeouts, api_key \in {None, PyStr("k")} :
        /\ _base_url = rstrip("http://localhost/", "/")
        /\ _timeout = timeout
        /\ _session = ConfigureSession(SessionOrNew(session), DEFAULT_USER_AGENT,
                                       api_key, PyStr("u"), PyStr("p"))
    /\ call = [name |-> "", args |-> <<>>]
    /\ request = NoRequest
    /\ response = NoResponse
    /\ outcome = NoOutcome
    /\ reasons = <<>>
    /\ session_calls = <<>>
    /\ scope = NoScope
    /\ sessions = <<>>
    /\ clients = <<>>

NextLife ==
    \/ get_version
    \/ import_entry
    \/ refresh_all_feeds
    \/ delete_feed
    \/ close
    \/ __enter__
    \/ __exit__
    \/ proceed

SpecLife == InitLife /\ [][NextLife]_vars

-----------------------------------------------------------------------------
(* A program with several clients: sessions are objects with an identity *)

\* the caller makes a session of its own, to hand to constructors
requests_Session ==
    /\ Cardinality({i \in DOMAIN sessions : sessions[i].owner = "caller"}) < MaxShared
    /\ sessions' = Append(sessions, [owner |-> "caller", state |-> FreshSession])
    /\ UNCHANGED <<pc, _base_url, _timeout, _session, call, request, response, outcome,
                   reasons, session_calls, scope, clients>>

\* the session arguments a constructor call can be given: none, or one of the
\* caller's sessions
SharedSessionArgs ==
    {None} \cup {[t |-> "session", id |-> i, state |-> sessions[i].state] :
                    i \in {j \in DOMAIN sessions : sessions[j].owner = "caller"}}

ClientApiKeys == {None, PyStr("k1"), PyStr("k2")}
ClientUserAgents == {DEFAULT_USER_AGENT, "agent-two"}

\* a variant whose default session is one object, made once and used by every
\* construction without a session argument
NewClient_default_session ==
    /\ Len(clients) < MaxClients
    /\ \E api_key \in ClientApiKeys, username \in {None, PyStr("u")},
          password \in {None, PyStr("p")}, user_agent \in ClientUserAgents,
          session \in SharedSessionArgs :
           LET args == [base_url |-> PyStr("http://localhost/"), username |-> username,
                        password |-> password, timeout |-> PyInt(DefaultTimeout),
                        api_key |-> api_key, user_agent |-> PyStr(user_agent),
                        session |-> session]
               default == {i \in DOMAIN sessions : sessions[i].owner = "client"}
               given == IF Truthy(session) THEN session
                        ELSE IF default = {} THEN None
                        ELSE [t |-> "session", id |-> CHOOSE i \in default : TRUE,
                              state |-> sessions[CHOOSE i \in default : TRUE].state]
               configured == ConfigureSession(SessionOrNew(given), user_agent,
                                              api_key, username, password)
               id == IF Truthy(given) THEN given.id ELSE Len(sessions) + 1
           IN  IF MissingCredentials(api_key, username, password)
               THEN UNCHANGED <<sessions, clients>>
               ELSE /\ sessions' =
                        IF Truthy(given)
                        THEN [sessions EXCEPT ![id].state = configured]
                        ELSE Append(sessions, [owner |-> "client", state |-> configured])
                    /\ clients' = Append(clients,
                                         [_base_url |-> rstrip("http://localhost/", "/"),
                                          _timeout |-> DefaultTimeout,
                                          _session |-> id, args |-> args])
    /\ UNCHANGED <<pc, _base_url, _timeout, _session, call, request, response, outcome,
                   reasons, session_calls, scope>>

\* Client(base_url, ...) in a program that holds other clients: a construction
\* without a session argument makes a new session object, one with a session
\* argument writes into that object
NewClient ==
    /\ Len(clients) < MaxClients
    /\ \E api_key \in ClientApiKeys, username \in {None, PyStr("u")},
          password \in {None, PyStr("p")}, user_agent \in ClientUserAgents,
          session \in SharedSessionArgs :
           LET args == [base_url |-> PyStr("http://localhost/"), username |-> username,
                        password |-> password, timeout |-> PyInt(DefaultTimeout),
                        api_key |-> api_key, user_agent |-> PyStr(user_agent),
                        session |-> session]
               configured == ConfigureSession(SessionOrNew(session), user_agent,
                                              api_key, username, password)
               id == IF Truthy(session) THEN session.id ELSE Len(sessions) + 1
           IN  IF MissingCredentials(api_key, username, password)
               THEN UNCHANGED <<sessions, clients>>
               ELSE /\ sessions' =
                        IF Truthy(session)
                        THEN [sessions EXCEPT ![id].state = configured]
                        ELSE Append(sessions, [owner |-> "client", state |-> configured])
                    /\ clients' = Append(clients,
                                         [_base_url |-> rstrip("http://localhost/", "/"),
                                          _timeout |-> DefaultTimeout,
                                          _session |-> id, args |-> args])
    /\ UNCHANGED <<pc, _base_url, _timeout, _session, call, request, response, outcome,
                   reasons, session_calls, scope>>

InitClients == Init

NextClients ==
    \/ requests_Session
    \/ NewClient

SpecClients == InitClients /\ [][NextClients]_vars

-----------------------------------------------------------------------------
(* Vocabulary of the properties *)

ApiCall == call.name \in ApiMethods
Answered == response.kind = "response"
Sent == request.sent
Constructed == call.name = "__init__" /\ outcome.kind = "return"

Raises(type) == outcome.kind = "raise" /\ outcome.exc = type
RaisesWithStatus(type, s) ==
    /\ Raises(type)
    /\ outcome.status_code = s

\* the methods that only test `status_code >= 400`
ThresholdMethods ==
    {"refresh_all_feeds", "refresh_feed", "refresh_category", "update_entries",
     "toggle_bookmark"}

HasPrefix(s, p) == Len(s) >= Len(p) /\ SubSeq(s, 1, Len(p)) = p
EndsWithSlash(s) == Len(s) > 0 /\ SubSeq(s, Len(s), Len(s)) = "/"
NonEmptyStr(v) == v.t = "str" /\ v.s # ""

\* C1: whatever the API method, a response with status 400 raises BadRequest,
\* 401 AccessUnauthorized, 403 AccessForbidden, 404 ResourceNotFound and a
\* status of 500 or more ServerError, and the error carries that status.
C1_TypedErrors ==
    (ApiCall /\ Answered) =>
        LET s == response.status_code
        IN  /\ s = 400 => RaisesWithStatus("BadRequest", s)
            /\ s = 401 => RaisesWithStatus("AccessUnauthorized", s)
            /\ s = 403 => RaisesWithStatus("AccessForbidden", s)
            /\ s = 404 => RaisesWithStatus("ResourceNotFound", s)
            /\ s >= 500 => RaisesWithStatus("ServerError", s)

C1_Witness ==
    /\ call.name = "delete_feed"
    /\ Answered
    /\ response.status_code = 503
    /\ RaisesWithStatus("ServerError", 503)

\* a status that is neither 2xx nor one of the typed error statuses
OtherStatus(s) == s \notin 200..299 /\ s \notin {400, 401, 403, 404} /\ s < 500

\* C2 as stated: for every API method, a status that is not 2xx and not 400,
\* 401, 403, 404 or >= 500 raises the generic ClientError.
C2_Original ==
    (ApiCall /\ Answered /\ OtherStatus(response.status_code)) => Raises("ClientError")

\* C2 amended: such a status raises the generic ClientError, except that the
\* methods testing only `status >= 400` return True for it when it is below 400.
C2_GenericError ==
    (ApiCall /\ Answered /\ OtherStatus(response.status_code)) =>
        IF call.name \in ThresholdMethods /\ response.status_code < 400
        THEN outcome = Return(True)
        ELSE RaisesWithStatus("ClientError", response.status_code)

C2_Witness ==
    /\ call.name = "get_feed"
    /\ Answered
    /\ response.status_code = 409
    /\ Raises("ClientError")

C2_WitnessThreshold ==
    /\ call.name = "refresh_feed"
    /\ Answered
    /\ response.status_code = 302
    /\ outcome = Return(True)

\* the resource path of every API method, identifiers interpolated
Id(v) == ToString(v.i)
ExpectedPath ==
    LET a == call.args
        n == call.name
    IN  CASE n = "flush_history" -> "/flush-history"
          [] n = "get_version" -> "/version"
          [] n = "me" -> "/me"
          [] n \in {"export", "export_feeds"} -> "/export"
          [] n = "import_feeds" -> "/import"
          [] n = "discover" -> "/discover"
          [] n = "get_category_feeds" -> "/categories/" \o Id(a.category_id) \o "/feeds"
          [] n \in {"get_feeds", "create_feed"} -> "/feeds"
          [] n \in {"get_feed", "update_feed", "delete_feed"} -> "/feeds/" \o Id(a.feed_id)
          [] n \in {"get_feed_icon", "get_icon_by_feed_id"} ->
                "/feeds/" \o Id(a.feed_id) \o "/icon"
          [] n = "get_icon" -> "/icons/" \o Id(a.icon_id)
          [] n = "refresh_all_feeds" -> "/feeds/refresh"
          [] n = "refresh_feed" -> "/feeds/" \o Id(a.feed_id) \o "/refresh"
          [] n = "refresh_category" -> "/categories/" \o Id(a.category_id) \o "/refresh"
          [] n = "get_feed_entry" ->
                "/feeds/" \o Id(a.feed_id) \o "/entries/" \o Id(a.entry_id)
          [] n = "get_feed_entries" -> "/feeds/" \o Id(a.feed_id) \o "/entries"
          [] n = "import_entry" -> "/feeds/" \o Id(a.feed_id) \o "/entries/import"
          [] n = "mark_feed_entries_as_read" ->
                "/feeds/" \o Id(a.feed_id) \o "/mark-all-as-read"
          [] n \in {"get_entry", "update_entry"} -> "/entries/" \o Id(a.entry_id)
          [] n \in {"get_entries", "update_entries"} -> "/entries"
          [] n = "fetch_entry_content" -> "/entries/" \o Id(a.entry_id) \o "/fetch-content"
          [] n = "toggle_bookmark" -> "/entries/" \o Id(a.entry_id) \o "/bookmark"
          [] n = "save_entry" -> "/entries/" \o Id(a.entry_id) \o "/save"
          [] n \in {"get_enclosure", "update_enclosure"} ->
                "/enclosures/" \o Id(a.enclosure_id)
          [] n \in {"get_categories", "create_category"} -> "/categories"
          [] n = "get_category_entry" ->
                "/categories/" \o Id(a.category_id) \o "/entries/" \o Id(a.entry_id)
          [] n = "get_category_entries" -> "/categories/" \o Id(a.category_id) \o "/entries"
          [] n \in {"update_category", "delete_category"} ->
                "/categories/" \o Id(a.category_id)
          [] n = "mark_category_entries_as_read" ->
                "/categories/" \o Id(a.category_id) \o "/mark-all-as-read"
          [] n \in {"get_users", "create_user"} -> "/users"
          [] n = "get_user_by_id" -> "/users/" \o Id(a.user_id)
          [] n = "get_user_by_username" -> "/users/" \o a.username.s
          [] n \in {"update_user", "delete_user"} -> "/users/" \o Id(a.user_id)
          [] n = "mark_user_entries_as_read" ->
                "/users/" \o Id(a.user_id) \o "/mark-all-as-read"
          [] n = "get_feed_counters" -> "/feeds/counters"
          [] n = "get_integrations_status" -> "/integrations/status"
          [] n \in {"get_api_keys", "create_api_key"} -> "/api-keys"
          [] n = "delete_api_key" -> "/api-keys/" \o Id(a.api_key_id)

\* C3: for every API method, get_version included, the URL handed to the
\* transport is the normalized base URL, then "/v1", then the resource path of
\* the method with its identifiers interpolated.
C3_EndpointUrl ==
    (ApiCall /\ Sent) => request.url = _base_url \o "/v1" \o ExpectedPath

C3_Witness ==
    /\ call.name = "get_feed_entry"
    /\ Sent
    /\ _base_url = "http://localhost"
    /\ request.url = "http://localhost/v1/feeds/1/entries/2"

\* C4 as stated: get_version requests the unversioned URL <base_url>/version.
C4_Original ==
    (call.name = "get_version" /\ Sent) => request.url = _base_url \o "/version"

\* C4 amended: get_version requests <base_url>/v1/version like every other
\* method; no method bypasses the "/v1" prefix.
C4_VersionIsVersioned ==
    /\ (call.name = "get_version" /\ Sent) =>
            /\ request.verb = "GET"
            /\ request.url = _base_url \o "/v1/version"
    /\ (ApiCall /\ Sent) => HasPrefix(request.url, _base_url \o "/v1/")

C4_Witness ==
    /\ call.name = "get_version"
    /\ Sent
    /\ request.url = "https://localhost/v1/version"

\* the base_url with exactly one trailing '/' removed when there is one
StripOne(s) == IF EndsWithSlash(s) THEN SubSeq(s, 1, Len(s) - 1) ELSE s

\* C5 as stated: construction strips exactly one trailing '/' from base_url.
C5_Original ==
    Constructed => _base_url = StripOne(call.args.base_url.s)

\* C5 amended: construction strips every trailing '/' from base_url and
\* nothing else: the stored base URL does not end in '/', and base_url is the
\* stored base URL followed by '/' characters only.
C5_StripsAllTrailing ==
    Constructed =>
        LET given == call.args.base_url.s
        IN  /\ ~EndsWithSlash(_base_url)
            /\ \E k \in 0..Len(given) : given = _base_url \o Slashes(k)

C5_Witness ==
    /\ Constructed
    /\ call.args.base_url.s = "http://localhost//"
    /\ _base_url = "http://localhost"

\* C6: the constructor raises ValueError exactly when base_url starts with
\* neither "http://" nor "https://", or when there is neither a non-empty
\* api_key nor a non-empty username together with a non-empty password; in
\* every other case it succeeds.
C6_ValueErrorIff ==
    call.name = "__init__" =>
        LET a == call.args
            badScheme == ~HasPrefix(a.base_url.s, "http://")
                            /\ ~HasPrefix(a.base_url.s, "https://")
            noCredentials == ~NonEmptyStr(a.api_key)
                                /\ ~(NonEmptyStr(a.username) /\ NonEmptyStr(a.password))
        IN  IF badScheme \/ noCredentials
            THEN outcome = Raise("ValueError") /\ pc = "failed"
            ELSE outcome = Return(None) /\ pc = "ready"

C6_Witness ==
    /\ call.name = "__init__"
    /\ HasPrefix(call.args.base_url.s, "http://")
    /\ call.args.api_key = PyStr("")
    /\ call.args.username = PyStr("u")
    /\ call.args.password = None
    /\ outcome = Raise("ValueError")

\* the session the constructor starts from
SessionBefore == IF call.args.session = None THEN FreshSession ELSE call.args.session.state

\* C7: with an api_key the constructor sets the X-Auth-Token header to it and
\* leaves the basic-auth credentials of the session as they were, even when a
\* username and a password are given; without an api_key it sets the auth of the
\* session to (username, password) and leaves the X-Auth-Token header as it was
\* (absent on a new session).
C7_AuthPrecedence ==
    Constructed =>
        LET a == call.args
        IN  IF NonEmptyStr(a.api_key)
            THEN /\ "X-Auth-Token" \in DOMAIN _session.headers
                 /\ _session.headers["X-Auth-Token"] = a.api_key
                 /\ _session.auth = SessionBefore.auth
            ELSE /\ _session.auth = PyTuple(<<a.username, a.password>>)
                 /\ ("X-Auth-Token" \in DOMAIN _session.headers)
                        = ("X-Auth-Token" \in DOMAIN SessionBefore.headers)
                 /\ headers_get(_session, "X-Auth-Token")
                        = headers_get(SessionBefore, "X-Auth-Token")

C7_Witness ==
    /\ Constructed
    /\ call.args.api_key = PyStr("k")
    /\ call.args.username = PyStr("u")
    /\ call.args.password = PyStr("p")
    /\ call.args.session = None
    /\ _session.headers["X-Auth-Token"] = PyStr("k")
    /\ _session.auth = None

UpdateMethods ==
    {"update_feed", "update_user", "update_entry", "update_enclosure", "import_entry"}

\* the fields an update-style call was given, by name
GivenFields ==
    IF call.name \in {"update_feed", "update_user"} THEN call.args.kwargs.d
    ELSE [k \in DOMAIN call.args \ {"feed_id", "entry_id", "enclosure_id"} |-> call.args[k]]

\* C8: the JSON body of an update-style call holds a field exactly when its
\* value is not None; False, 0, an empty string and an empty list are kept,
\* with their value.
C8_NotNoneFields ==
    (call.name \in UpdateMethods /\ Sent) =>
        /\ request.data.j = "object"
        /\ DOMAIN request.data.o = {k \in DOMAIN GivenFields : GivenFields[k].t # "none"}
        /\ \A k \in DOMAIN request.data.o :
            LET v == GivenFields[k]
                sent == request.data.o[k]
            IN  /\ sent = json_dumps(v)
                /\ v = False => sent = [j |-> "false"]
                /\ v = PyInt(0) => sent = JsonNumber(0)
                /\ v = PyStr("") => sent = JsonString("")
                /\ v = PyList(<<>>) => sent = JsonArray(<<>>)

C8_Witness ==
    /\ call.name = "update_feed"
    /\ Sent
    /\ call.args.kwargs = PyDict([title |-> None, crawler |-> False])
    /\ request.data = JsonObject([crawler |-> [j |-> "false"]])

C8_WitnessImport ==
    /\ call.name = "import_entry"
    /\ Sent
    /\ call.args.title = PyStr("")
    /\ call.args.tags = PyList(<<>>)
    /\ call.args.starred = None
    /\ call.args.published_at = PyInt(0)
    /\ DOMAIN request.data.o = {"url", "title", "tags", "published_at"}

QueryMethods == {"get_entries", "get_feed_entries", "get_category_entries"}

FalsyValues == {None, False, PyInt(0), PyStr(""), PyList(<<>>), EmptyDict}

\* C9: the params of get_entries, get_feed_entries and get_category_entries are
\* exactly the keyword filters with a truthy value, unchanged; when none is
\* left, params is None and not an empty mapping.
C9_TruthyParams ==
    (call.name \in QueryMethods /\ Sent) =>
        LET kwargs == call.args.kwargs.d
            kept == {k \in DOMAIN kwargs : kwargs[k] \notin FalsyValues}
        IN  IF kept = {}
            THEN request.params = None
            ELSE /\ request.params.t = "dict"
                 /\ DOMAIN request.params.d = kept
                 /\ \A k \in kept : request.params.d[k] = kwargs[k]

C9_Witness ==
    /\ call.name = "get_entries"
    /\ Sent
    /\ call.args.kwargs = PyDict([starred |-> False, limit |-> PyInt(10)])
    /\ request.params = PyDict([limit |-> PyInt(10)])

C9_WitnessNone ==
    /\ call.name = "get_feed_entries"
    /\ Sent
    /\ call.args.kwargs = PyDict([status |-> PyList(<<>>), search |-> PyStr("")])
    /\ request.params = None

CreateMethods == {"create_feed", "create_category", "create_user", "create_api_key"}

\* C10: a create-style call serializes every base field as given, with no
\* filtering: create_feed without a category sends category_id null,
\* crawler=False is sent as false, create_user always sends is_admin.
C10_CreateAsGiven ==
    (call.name \in CreateMethods /\ Sent) =>
        LET a == call.args
            body == request.data
        IN  /\ body.j = "object"
            /\ \A k \in DOMAIN a \ {"kwargs"} :
                /\ k \in DOMAIN body.o
                /\ body.o[k] = json_dumps(a[k])
            /\ call.name = "create_feed" =>
                /\ a.category_id = None => body.o["category_id"] = [j |-> "null"]
                /\ \A k \in DOMAIN a.kwargs.d :
                    /\ k \in DOMAIN body.o
                    /\ body.o[k] = json_dumps(a.kwargs.d[k])
                    /\ a.kwargs.d[k] = False => body.o[k] = [j |-> "false"]
            /\ call.name = "create_user" =>
                /\ "is_admin" \in DOMAIN body.o
                /\ a.is_admin = False => body.o["is_admin"] = [j |-> "false"]

C10_Witness ==
    /\ call.name = "create_feed"
    /\ Sent
    /\ call.args.category_id = None
    /\ call.args.kwargs = PyDict([crawler |-> False])
    /\ request.data = JsonObject([feed_url |-> JsonString("http://example.org/feed"),
                                  category_id |-> [j |-> "null"],
                                  crawler |-> [j |-> "false"]])

C10_WitnessUser ==
    /\ call.name = "create_user"
    /\ Sent
    /\ call.args.is_admin = False
    /\ request.data.o["is_admin"] = [j |-> "false"]

\* the body of the response can be decoded as JSON
Decodable == response.body.j \notin {"invalid", "empty"}

\* C11: on a 201 response create_feed returns the value under the 'feed_id'
\* key of the decoded body, never the whole body.
C11_FeedIdOnly ==
    (call.name = "create_feed" /\ Answered /\ response.status_code = 201) =>
        LET body == response.body
        IN  /\ (body.j = "object" /\ "feed_id" \in DOMAIN body.o) =>
                    /\ outcome = Return(json_loads(body.o["feed_id"]))
                    /\ body = ObjectBody => outcome = Return(PyInt(42))
            /\ outcome.kind = "return" =>
                    /\ body.j = "object"
                    /\ "feed_id" \in DOMAIN body.o
                    /\ outcome.value # json_loads(body)

C11_Witness ==
    /\ call.name = "create_feed"
    /\ Answered
    /\ response.status_code = 201
    /\ response.body = ObjectBody
    /\ outcome = Return(PyInt(42))

\* the methods that return the decoded body, by success status
JsonMethods200 ==
    {"get_version", "me", "discover", "get_category_feeds", "get_feeds", "get_feed",
     "get_feed_icon", "get_icon", "get_icon_by_feed_id", "get_feed_entry",
     "get_feed_entries", "import_entry", "get_entry", "get_entries",
     "fetch_entry_content", "get_enclosure", "get_categories", "get_category_entry",
     "get_category_entries", "get_users", "get_user_by_id", "get_user_by_username",
     "get_feed_counters", "get_api_keys"}
JsonMethods201 ==
    {"import_feeds", "update_feed", "import_entry", "update_entry", "create_category",
     "update_category", "create_user", "update_user", "create_api_key"}
TextMethods == {"export", "export_feeds"}
ProjectingMethods == {"create_feed", "get_integrations_status"}

OnSuccessStatus ==
    \/ call.name \in JsonMethods200 /\ response.status_code = 200
    \/ call.name \in JsonMethods201 /\ response.status_code = 201

\* C12: on its success status a body-returning method returns the decoded
\* JSON value of the response unchanged, export and export_feeds return the
\* text of the response unchanged, and only create_feed and
\* get_integrations_status return a part of the body.
C12_BodyUnchanged ==
    (ApiCall /\ Answered) =>
        /\ (OnSuccessStatus /\ Decodable) =>
                /\ outcome = Return(json_loads(response.body))
                /\ response.body = ObjectBody =>
                     outcome.value = PyDict([feed_id |-> PyInt(42), has_integrations |-> True])
                /\ response.body = ArrayBody =>
                     outcome.value = PyList(<<PyDict([id |-> PyInt(7)])>>)
        /\ (call.name \in TextMethods /\ response.status_code = 200) =>
                outcome = Return([t |-> "text", of |-> response.body])
        /\ (outcome.kind = "return" /\ response.reads # <<>> /\ Decodable
              /\ call.name \notin TextMethods /\ outcome.value # json_loads(response.body)) =>
                /\ call.name \in ProjectingMethods
                /\ call.name = "create_feed" =>
                        outcome.value = json_loads(response.body).d["feed_id"]
                /\ call.name = "get_integrations_status" =>
                        outcome.value = json_loads(response.body).d["has_integrations"]

C12_Witness ==
    /\ call.name = "discover"
    /\ Answered
    /\ response.status_code = 200
    /\ response.body = ArrayBody
    /\ outcome = Return(PyList(<<PyDict([id |-> PyInt(7)])>>))

C12_WitnessText ==
    /\ call.name = "export"
    /\ Answered
    /\ response.status_code = 200
    /\ response.body = NotJson
    /\ outcome = Return([t |-> "text", of |-> NotJson])

\* the Content-Type of the response declares JSON
DeclaresJson ==
    /\ "Content-Type" \in DOMAIN response.headers
    /\ response.headers["Content-Type"]
            \in {PyStr("application/json"), PyStr("application/json; charset=utf-8")}

DefaultReason == PyStr("status_code=" \o ToString(response.status_code))

\* C13 as stated: get_error_reason() returns the 'error_message' of the body
\* when the response declares a JSON content type and its decoded body is a
\* mapping with that key; it returns 'status_code=<N>' when the body is a
\* mapping without the key, when the decoded body is not a mapping, or when
\* the response has no Content-Type or a non-JSON one.
C13_Claim ==
    (pc = "raised" /\ reasons # <<>>) =>
        \A i \in DOMAIN reasons :
            LET decoded == json_loads(response.body)
                hasMessage == decoded.t = "dict" /\ "error_message" \in DOMAIN decoded.d
            IN  /\ (DeclaresJson /\ Decodable /\ hasMessage) =>
                        reasons[i] = Return(decoded.d["error_message"])
                /\ ((Decodable /\ ~hasMessage) \/ ~DeclaresJson) =>
                        reasons[i] = Return(DefaultReason)

\* C14 as stated: get_error_reason() never raises; for a response that declares
\* JSON but has no body or a body that is not JSON it returns 'status_code=<N>'.
C14_Claim ==
    (pc = "raised" /\ reasons # <<>>) =>
        \A i \in DOMAIN reasons :
            /\ reasons[i].kind = "return"
            /\ ~Decodable => reasons[i] = Return(DefaultReason)

\* C15: the body of the error response is decoded lazily: building and raising
\* the error decodes nothing, every decoding is made by a get_error_reason()
\* call, and none is made when the Content-Type is missing or is not JSON.
C15_LazyDecoding ==
    /\ pc = "responded" => response.reads = <<>>
    /\ pc = "raised" =>
        /\ outcome.exc \in ErrorTypes
        /\ outcome._response.reads = response.reads
        /\ reasons = <<>> => outcome._response.reads = <<>>
        /\ Len(outcome._response.reads) <= Len(reasons)
        /\ ~DeclaresJson => outcome._response.reads = <<>>

C15_Witness ==
    /\ pc = "raised"
    /\ response.headers = JsonContentType
    /\ Len(reasons) = 1
    /\ outcome._response.reads = <<"json">>

C15_WitnessNotJson ==
    /\ pc = "raised"
    /\ ~DeclaresJson
    /\ Len(reasons) = MaxReasonCalls
    /\ outcome._response.reads = <<>>

\* the error type of a status, as the taxonomy of the errors gives it
ClassifiedError(s) ==
    CASE s = 400 -> "BadRequest"
      [] s = 401 -> "AccessUnauthorized"
      [] s = 403 -> "AccessForbidden"
      [] s = 404 -> "ResourceNotFound"
      [] s >= 500 -> "ServerError"
      [] OTHER -> "ClientError"

\* C16: import_entry with an empty or None url raises ValueError before any
\* transport call is made; with a non-empty url it issues one POST to
\* /v1/feeds/{feed_id}/entries/import.
C16_ImportEntryUrl ==
    call.name = "import_entry" =>
        IF call.args.url \in {None, PyStr("")}
        THEN /\ request = NoRequest
             /\ response = NoResponse
             /\ outcome = Raise("ValueError")
        ELSE /\ Sent
             /\ request.verb = "POST"
             /\ request.url = _base_url \o "/v1/feeds/" \o Id(call.args.feed_id)
                                \o "/entries/import"
             /\ response # NoResponse

C16_Witness ==
    /\ call.name = "import_entry"
    /\ call.args.url = PyStr("")
    /\ request = NoRequest
    /\ outcome = Raise("ValueError")

C16_WitnessSent ==
    /\ call.name = "import_entry"
    /\ call.args.url = PyStr("http://example.org/a")
    /\ Sent
    /\ request.url = "http://localhost/v1/feeds/2/entries/import"

\* C17: update_entries(entry_ids, status) issues one PUT to /v1/entries with
\* the body {'entry_ids': entry_ids, 'status': status}, raises the classified
\* error for a status of 400 or more and returns True for every other status.
C17_UpdateEntries ==
    call.name = "update_entries" =>
        /\ Sent
        /\ request.verb = "PUT"
        /\ request.url = _base_url \o "/v1/entries"
        /\ request.data.j = "object"
        /\ DOMAIN request.data.o = {"entry_ids", "status"}
        /\ request.data.o["status"] = JsonString(call.args.status.s)
        /\ request.data.o["entry_ids"] =
                JsonArray([i \in DOMAIN call.args.entry_ids.l |->
                                JsonNumber(call.args.entry_ids.l[i].i)])
        /\ Answered =>
                IF response.status_code >= 400
                THEN RaisesWithStatus(ClassifiedError(response.status_code),
                                      response.status_code)
                ELSE outcome = Return(True)

C17_Witness ==
    /\ call.name = "update_entries"
    /\ request.data = JsonObject([entry_ids |-> JsonArray(<<JsonNumber(1), JsonNumber(2)>>),
                                  status |-> JsonString("read")])
    /\ Answered
    /\ response.status_code = 200
    /\ outcome = Return(True)

AcceptedMethods == {"flush_history", "save_entry"}
NoContentMethods ==
    {"delete_feed", "delete_category", "delete_user", "delete_api_key",
     "mark_feed_entries_as_read", "mark_category_entries_as_read",
     "mark_user_entries_as_read"}

C18_WitnessAccepted ==
    /\ call.name = "save_entry"
    /\ Answered
    /\ response.status_code = 202
    /\ outcome = Return(True)

\* C19 as stated: on a 204 response update_enclosure returns nothing.
C19_Original ==
    (call.name = "update_enclosure" /\ Answered /\ response.status_code = 204) =>
        outcome = Return(None)

\* C19 amended: on a 204 response update_enclosure returns True, without
\* reading the body; every other status raises.
C19_EnclosureReturnsTrue ==
    (call.name = "update_enclosure" /\ Answered) =>
        IF response.status_code = 204
        THEN outcome = Return(True) /\ response.reads = <<>>
        ELSE Raises(ClassifiedError(response.status_code))

C19_Witness ==
    /\ call.name = "update_enclosure"
    /\ Answered
    /\ response.status_code = 204
    /\ outcome = Return(True)

RefreshMethods == {"refresh_all_feeds", "refresh_feed", "refresh_category"}

\* C20: the refresh methods raise the classified error for a status of 400 or
\* more and return True for every status below 400, and never decode the body.
C20_Refresh ==
    (call.name \in RefreshMethods /\ Answered) =>
        /\ response.reads = <<>>
        /\ response.status_code >= 400 =>
                RaisesWithStatus(ClassifiedError(response.status_code), response.status_code)
        /\ response.status_code < 400 => outcome = Return(True)

C20_Witness ==
    /\ call.name = "refresh_feed"
    /\ Answered
    /\ response.status_code = 200
    /\ response.body = EmptyBody
    /\ outcome = Return(True)

\* C21: every invocation of an API method, the wrappers included, makes one
\* call on the session, with the timeout given to the constructor, whether the
\* transport answers with success, with an error status or raises; only
\* import_entry with an empty url makes none.
C21_OneTransportCall ==
    /\ Constructed => _timeout = call.args.timeout.i
    /\ ApiCall =>
        IF call.name = "import_entry" /\ call.args.url \in {None, PyStr("")}
        THEN session_calls = <<>>
        ELSE /\ Len(session_calls) = 1
             /\ session_calls[1].method = request.verb
             /\ session_calls[1].timeout = <<_timeout>>
             /\ request.timeout = _timeout

C21_Witness ==
    /\ call.name = "get_user_by_username"
    /\ response = TransportFailure
    /\ _timeout = DefaultTimeout
    /\ session_calls = <<[method |-> "GET", timeout |-> <<30>>]>>

C21_WitnessServerError ==
    /\ call.name = "export"
    /\ Answered
    /\ response.status_code = 503
    /\ _timeout = 5
    /\ Len(session_calls) = 1

\* C22: an exception raised by the transport leaves the API method as it is:
\* the method raises that exception, not ClientError or one of its subtypes,
\* and returns no value.
C22_TransportErrorPropagates ==
    (ApiCall /\ Sent /\ response.kind = "raised") =>
        /\ outcome = Raise(response.exc)
        /\ outcome.exc \notin ErrorTypes

C22_Witness ==
    /\ call.name = "export_feeds"
    /\ Sent
    /\ response = TransportFailure
    /\ outcome = Raise("Timeout")

\* C23: used in a with-block, __enter__ returns the client itself, and when
\* the block is left, at its end or by an exception, session.close() is called
\* and the exception that is leaving is not suppressed.
C23_ScopedRelease ==
    [][/\ (scope.state = "outside" /\ scope'.state = "inside") =>
                /\ outcome' = Return(Self)
                /\ scope'.target = Self
       /\ (scope.state = "inside" /\ scope'.state = "left") =>
                /\ session_calls' = Append(session_calls, CloseCall)
                /\ scope'.escaping = Leaving]_vars

C23_Witness ==
    /\ scope.state = "left"
    /\ scope.target = Self
    /\ scope.escaping = PyStr("ServerError")
    /\ session_calls = <<[method |-> "GET", timeout |-> <<_timeout>>], CloseCall>>

C23_WitnessNormalExit ==
    /\ scope.state = "left"
    /\ scope.escaping = None
    /\ call.args = <<None>>
    /\ session_calls = <<[method |-> "PUT", timeout |-> <<_timeout>>], CloseCall>>

\* the session of the client is the one the caller supplied
SessionSupplied ==
    \/ headers_get(_session, "X-Auth-Token") = headers_get(UsedSession, "X-Auth-Token")
    \/ _session.auth = UsedSession.auth

\* a call of an API method that reaches the transport
DelegatingStep == pc = "ready" /\ pc' = "done" /\ call'.name \in ApiMethods /\ request'.sent

\* C25: the configuration of a client is fixed at construction: no API method
\* call, whatever its outcome and whatever came before it, changes the base
\* URL, the timeout or the session's headers and auth, and every request is
\* built from that base URL and carries that timeout.
C25_ConfigurationFixed ==
    [][/\ UNCHANGED <<_base_url, _timeout, _session>>
       /\ DelegatingStep =>
                /\ request'.timeout = _timeout
                /\ HasPrefix(request'.url, _base_url \o "/v1/")]_vars

C25_Witness ==
    /\ call.name = "import_entry"
    /\ Raises("ValueError")
    /\ Len(session_calls) = 1
    /\ _session = ConfigureSession(FreshSession, DEFAULT_USER_AGENT, PyStr("k"), None, None)

C25_WitnessSecondCall ==
    /\ call.name = "delete_feed"
    /\ Raises("AccessUnauthorized")
    /\ Len(session_calls) = 2
    /\ _session.auth = PyTuple(<<PyStr("u"), PyStr("p")>>)
    /\ request.url = "http://localhost/v1/feeds/1"

\* C29: close() calls session.close() every time it is called, on a session
\* the caller supplied as on one of the client's own, also when the session
\* was closed before and when the call comes from the end of a with-block;
\* an API method called after close() still makes its one call on the session.
C29_CloseKeepsNoState ==
    [][/\ (pc = "ready" /\ pc' = "done" /\ call'.name = "close") =>
                session_calls' = Append(session_calls, CloseCall)
       /\ (call'.name = "__exit__" /\ scope.state = "inside") =>
                session_calls' = Append(session_calls, CloseCall)
       /\ DelegatingStep =>
                session_calls' = Append(session_calls, SessionCall(request'))]_vars

C29_Witness ==
    /\ SessionSupplied
    /\ call.name = "close"
    /\ session_calls = <<CloseCall, CloseCall>>

C29_WitnessThenExit ==
    /\ call.name = "__exit__"
    /\ scope.state = "left"
    /\ session_calls = <<CloseCall, CloseCall>>

C29_WitnessAfterClose ==
    /\ call.name = "get_version"
    /\ outcome.kind = "return"
    /\ session_calls = <<CloseCall, [method |-> "GET", timeout |-> <<_timeout>>]>>

\* the fields of the base payload
BaseFields ==
    [discover |-> {"url"}, create_feed |-> {"feed_url", "category_id"}]

\* C24: discover and create_feed merge the extra keyword fields into the base
\* payload: the JSON body has the base fields and the extra fields given, each
\* extra field with its value, and no other field.
C24_ExtrasMerged ==
    (call.name \in DOMAIN BaseFields /\ Sent) =>
        LET extras == call.args.kwargs.d
            body == request.data
        IN  /\ body.j = "object"
            /\ DOMAIN body.o = BaseFields[call.name] \cup DOMAIN extras
            /\ \A k \in DOMAIN extras :
                    CASE extras[k].t = "str" -> body.o[k] = JsonString(extras[k].s)
                      [] extras[k].t = "bool" ->
                            body.o[k] = [j |-> IF extras[k].b THEN "true" ELSE "false"]
                      [] extras[k].t = "none" -> body.o[k] = [j |-> "null"]

C24_Witness ==
    /\ call.name = "discover"
    /\ Sent
    /\ call.args.kwargs = PyDict([username |-> PyStr("u"), password |-> PyStr("p")])
    /\ request.data = JsonObject([url |-> JsonString("http://example.org/"),
                                  username |-> JsonString("u"),
                                  password |-> JsonString("p")])

C24_WitnessNoExtras ==
    /\ call.name = "create_feed"
    /\ Sent
    /\ call.args.kwargs = EmptyDict
    /\ DOMAIN request.data.o = {"feed_url", "category_id"}

\* the statuses a method takes for success, for the methods that test for
\* them by equality
CreatedMethods ==
    {"import_feeds", "create_feed", "update_feed", "update_entry", "create_category",
     "update_category", "create_user", "update_user", "create_api_key"}

SuccessStatuses(name) ==
    IF name = "import_entry" THEN {200, 201}
    ELSE IF name \in CreatedMethods THEN {201}
    ELSE IF name \in AcceptedMethods THEN {202}
    ELSE IF name \in NoContentMethods \cup {"update_enclosure"} THEN {204}
    ELSE {200}

\* a call of a method outside the '>= 400 only' family, answered with a status
\* the method does not take for success
UnexpectedStatus ==
    /\ ApiCall
    /\ Answered
    /\ call.name \notin ThresholdMethods
    /\ response.status_code \notin SuccessStatuses(call.name)

\* C27 as stated: every status other than the success status of the method
\* raises the generic ClientError carrying that status.
C27_Original ==
    UnexpectedStatus => RaisesWithStatus("ClientError", response.status_code)

\* C27 amended: outside the '>= 400 only' family a method takes one status for
\* success (import_entry: 200 and 201); every other status raises the error
\* its classification gives, carrying that status: the generic ClientError for
\* another 2xx code and for every status that is not 400, 401, 403, 404 or
\* >= 500, the typed subtype for those.
C27_OneSuccessStatus ==
    /\ UnexpectedStatus =>
        /\ RaisesWithStatus(ClassifiedError(response.status_code), response.status_code)
        /\ response.status_code < 400 => Raises("ClientError")
        /\ response.reads = <<>>
    /\ (ApiCall /\ Answered /\ response.status_code \in SuccessStatuses(call.name)) =>
        ~(outcome.kind = "raise" /\ outcome.exc \in ErrorTypes)

C27_Witness ==
    /\ call.name = "update_feed"
    /\ Answered
    /\ response.status_code = 200
    /\ RaisesWithStatus("ClientError", 200)

C27_WitnessDelete ==
    /\ call.name = "delete_feed"
    /\ Answered
    /\ response.status_code = 200
    /\ RaisesWithStatus("ClientError", 200)

C27_WitnessImportEntry ==
    /\ call.name = "import_entry"
    /\ Answered
    /\ response.status_code = 200
    /\ outcome.kind = "return"

\* C30: get_error_reason() decodes the body only when the Content-Type header
\* is exactly 'application/json'; for every other value, one that still
\* declares JSON such as 'application/json; charset=utf-8' included, it does
\* not read the body and returns the default 'status_code=<N>', also when the
\* body holds an error_message.
C30_ExactContentType ==
    call.name = "get_error_reason" =>
        IF headers_get(response, "Content-Type") = PyStr("application/json")
        THEN response.reads = [i \in 1..Len(reasons) |-> "json"]
        ELSE /\ response.reads = <<>>
             /\ \A i \in DOMAIN reasons : reasons[i] = Return(DefaultReason)

C30_Witness ==
    /\ call.name = "get_error_reason"
    /\ headers_get(response, "Content-Type") = PyStr("application/json; charset=utf-8")
    /\ response.body = ErrorBody
    /\ response.status_code = 400
    /\ reasons = <<Return(PyStr("status_code=400"))>>

C30_WitnessExact ==
    /\ call.name = "get_error_reason"
    /\ headers_get(response, "Content-Type") = PyStr("application/json")
    /\ response.body = ErrorBody
    /\ reasons = <<Return(PyStr("some error"))>>

\* the session object of the i-th client, as it is now
SessionOf(i) == sessions[clients[i]._session].state

\* the clients constructed over the session object s, and the latest of a
\* non-empty set of clients
ClientsOn(s) == {i \in DOMAIN clients : clients[i]._session = s}
Latest(S) == CHOOSE i \in S : \A j \in S : j <= i

\* C26: clients constructed without a session argument never share a session:
\* each has a session object of its own, which keeps the credentials of that
\* client whatever clients are constructed later.
C26_OwnSession ==
    \A i \in DOMAIN clients :
        clients[i].args.session = None =>
            /\ \A j \in DOMAIN clients \ {i} : clients[j]._session # clients[i]._session
            /\ IF clients[i].args.api_key \in {PyStr("k1"), PyStr("k2")}
               THEN /\ headers_get(SessionOf(i), "X-Auth-Token") = clients[i].args.api_key
                    /\ SessionOf(i).auth = None
               ELSE /\ SessionOf(i).auth = PyTuple(<<clients[i].args.username,
                                                     clients[i].args.password>>)
                    /\ headers_get(SessionOf(i), "X-Auth-Token") = None

C26_Witness ==
    /\ Len(clients) = 2
    /\ clients[1].args.session = None
    /\ clients[2].args.session = None
    /\ clients[1]._session # clients[2]._session
    /\ headers_get(SessionOf(1), "X-Auth-Token") = PyStr("k1")
    /\ headers_get(SessionOf(2), "X-Auth-Token") = PyStr("k2")

\* C28: constructions over one session of the caller write into that session:
\* its User-Agent is that of the latest client constructed over it, its
\* X-Auth-Token that of the latest api-key client and its auth that of the
\* latest basic-auth client, so that an api-key client constructed after a
\* basic-auth client leaves both credentials set; every client over the
\* session sees the same.
C28_SharedSessionOverwritten ==
    \A s \in DOMAIN sessions :
        (sessions[s].owner = "caller" /\ ClientsOn(s) # {}) =>
            LET on == ClientsOn(s)
                keyed == {i \in on : clients[i].args.api_key \in {PyStr("k1"), PyStr("k2")}}
                basic == on \ keyed
                state == sessions[s].state
            IN  /\ headers_get(state, "User-Agent") = clients[Latest(on)].args.user_agent
                /\ headers_get(state, "X-Auth-Token") =
                        IF keyed = {} THEN None ELSE clients[Latest(keyed)].args.api_key
                /\ state.auth =
                        IF basic = {} THEN None
                        ELSE PyTuple(<<clients[Latest(basic)].args.username,
                                       clients[Latest(basic)].args.password>>)
                /\ \A i \in on : SessionOf(i) = state

C28_Witness ==
    /\ Len(clients) = 2
    /\ clients[1]._session = clients[2]._session
    /\ clients[1].args.api_key = None
    /\ clients[2].args.api_key = PyStr("k1")
    /\ SessionOf(1).auth = PyTuple(<<PyStr("u"), PyStr("p")>>)
    /\ headers_get(SessionOf(1), "X-Auth-Token") = PyStr("k1")

C28_WitnessReplaced ==
    /\ Len(clients) = 2
    /\ clients[1]._session = clients[2]._session
    /\ clients[1].args.api_key = PyStr("k1")
    /\ clients[1].args.user_agent = PyStr(DEFAULT_USER_AGENT)
    /\ clients[2].args.api_key = PyStr("k2")
    /\ clients[2].args.user_agent = PyStr("agent-two")
    /\ headers_get(SessionOf(1), "X-Auth-Token") = PyStr("k2")
    /\ headers_get(SessionOf(1), "User-Agent") = PyStr("agent-two")

====
